---- MODULE Spec2Model ----
(***************************************************************************)
(* Model of the Rust_OS kernel core: the intrusive list (kernel/list.rs),  *)
(* the task control block (kernel/task.rs), the ready-list scheduler and   *)
(* its tick counter (kernel/scheduler.rs, kernel/types.rs), the yield      *)
(* protocol of the demo tasks (main.rs) and the stack seeding and          *)
(* interrupt control of the architecture layer (arch/mod.rs).              *)
(*                                                                         *)
(* Pointers are integers: NULL is 0, the TCB of task t (and its embedded   *)
(* state_list_item) is t, and ready_lists[p] (and its embedded end_marker) *)
(* is -(p+1).                                                              *)
(***************************************************************************)
EXTENDS Integers, Sequences, FiniteSets, TLC

\* ------------------------------------------------------------------------
\* Program constants
\* ------------------------------------------------------------------------
MAX_PRIORITIES == 32
IDLE_PRIORITY == 0
MIN_STACK_SIZE == 256
STACK_ALIGNMENT == 16
CONTEXT_WORDS == 31
WORD_BYTES == 8
\* u64::MAX and usize::MAX (64-bit target), by the largest integer of the
\* model: all that is used of them is that no value is greater
U64_MAX == 2147483647
USIZE_MAX == U64_MAX

\* ------------------------------------------------------------------------
\* Bounds of the model
\* ------------------------------------------------------------------------
NTasks == 3
NStackBases == 8
NStackLens == 8
NNodes == 2
MaxMisuse == 1
MaxGuards == 3
NPrioOver == 2
NSizeAround == 2
MaxDepth == 3
MaxTicks == 4
NTickBack == 2

Tasks == 1..NTasks
Priorities == 0..(MAX_PRIORITIES - 1)
NULL == 0

\* Priorities the tasks of the API specification are built with: idle and
\* the 3 / 5 pair of the top-priority scenario.  Priority 2, which
\* select_next_different_task singles out, is among DemoPrioChoices.
PrioChoices == {0, 3, 5}

EndMarker(p) == -(p + 1)
ListPtr(p) == -(p + 1)
EndMarkers == {EndMarker(p) : p \in Priorities}
Nodes == Tasks \cup EndMarkers

VARIABLES
    next,               \* ListNode.next, per node
    prev,               \* ListNode.prev, per node
    container,          \* ListNode.container of each state_list_item
    owner,              \* ListNode.owner of each state_list_item
    length,             \* List.length, per ready list
    index,              \* List.index, per ready list
    priority,           \* TaskControlBlock.priority
    state,              \* TaskControlBlock.state
    current_task,       \* Scheduler.current_task
    top_ready_priority, \* Scheduler.top_ready_priority
    task_count,         \* Scheduler.task_count
    panic,              \* "none", or the message of the panic that halted
    op,                 \* the operation that ran last
    ret,                \* what it returned
    pc,                 \* position of the executing context (demo protocol)
    cpu,                \* whose code executes: 0 is main, t is task t
    ntasks,             \* how many tasks main registers
    l_current,          \* the yield block's local `current`
    l_next,             \* the yield block's local `next` / main's first_task
    prev_current,       \* the task that was current before the last switch
    stack_base,         \* address of the stack buffer (arch layer)
    stack_len,          \* its length in words
    stack_sp,           \* what initialize_task_stack returned, NULL before
    stack_mem,          \* the words initialize_task_stack wrote, by address
    value,              \* ListNode.value of each state_list_item
    arg,                \* the node the last List operation was applied to
    old,                \* what the last operation started from
    misuse,             \* List operations so far that the caller owed not
                        \* to make: inserting a linked node, init of a list
                        \* that holds nodes
    mie,                \* mstatus.MIE: machine interrupts enabled
    guards,             \* was_enabled of the live CriticalSection guards
    suspend_depth,      \* Scheduler.suspend_depth
    cs_clean,           \* since the outermost enter: only guards, LIFO
    sr_only,            \* so far only suspend() and resume() were called
    mie0,               \* MIE right before the outermost enter
    nest,               \* the open guards ("cs") and suspends ("sr"), innermost last
    nest_ok,            \* every drop and resume so far closed the innermost of them
    new_tcb,            \* <<the TCB TaskControlBlock::new returned>>, or <<>>
    new_priority,       \* the priority passed to TaskControlBlock::new
    new_stack_size,     \* the stack_size passed to TaskControlBlock::new
    owner_calls,        \* calls of update_list_item_owners on that TCB
    tick_count,         \* Scheduler.tick_count, a u64 in 16-bit limbs
    tick_start,         \* the tick an interval is measured from
    tick_calls,         \* calls of increment_tick since tick_start was read
    fifo                \* the queue a list is compared with: the nodes
                        \* inserted and not removed, oldest first

listVars == <<next, prev, container, length, index>>
tcbVars == <<owner, priority, state>>
schedVars == <<current_task, top_ready_priority, task_count>>
callVars == <<panic, op, ret>>
protoVars == <<pc, cpu, ntasks, l_current, l_next, prev_current>>
stackVars == <<stack_base, stack_len, stack_sp, stack_mem>>
nodeVars == <<value, arg, old, misuse>>
irqVars == <<mie, guards, suspend_depth, cs_clean, sr_only, mie0, nest,
            nest_ok>>
newVars == <<new_tcb, new_priority, new_stack_size, owner_calls>>
tickVars == <<tick_count, tick_start, tick_calls>>
vars == <<listVars, tcbVars, schedVars, callVars, protoVars, stackVars,
          nodeVars, irqVars, newVars, tickVars, fifo>>

\* ------------------------------------------------------------------------
\* The kernel state as one record, so that the operations compose the way
\* the methods call each other.
\* ------------------------------------------------------------------------
Kernel ==
    [next |-> next, prev |-> prev, container |-> container,
     length |-> length, index |-> index, state |-> state,
     current_task |-> current_task,
     top_ready_priority |-> top_ready_priority,
     task_count |-> task_count, panic |-> panic, ret |-> ret]

Commit(K) ==
    /\ next' = K.next
    /\ prev' = K.prev
    /\ container' = K.container
    /\ length' = K.length
    /\ index' = K.index
    /\ state' = K.state
    /\ current_task' = K.current_task
    /\ top_ready_priority' = K.top_ready_priority
    /\ task_count' = K.task_count
    /\ panic' = K.panic
    /\ ret' = K.ret

\* ------------------------------------------------------------------------
\* kernel/list.rs
\* ------------------------------------------------------------------------
\* List::is_empty
is_empty(K, p) == K.length[p] = 0

\* get_head as it would be with prev taken for next: the tail
get_head_tail(K, p) == IF is_empty(K, p) THEN NULL ELSE K.prev[EndMarker(p)]

\* List::get_head: the node after the end marker, NULL for None
get_head(K, p) == IF is_empty(K, p) THEN NULL ELSE K.next[EndMarker(p)]

\* ListNode::is_in_list
is_in_list(K, item) == K.container[item] # NULL

\* insert_end as it would be without `item.container = self`
insert_end_no_container(K, p, item) ==
    LET end == EndMarker(p)
        s1 == [K EXCEPT !.next[item] = end]
        s2 == [s1 EXCEPT !.prev[item] = s1.prev[end]]
        s3 == [s2 EXCEPT !.next[s2.prev[end]] = item]
        s4 == [s3 EXCEPT !.prev[end] = item]
    IN  [s4 EXCEPT !.length[p] = @ + 1]

\* insert_end as it would be with the node linked right after the end
\* marker, at the head of the list
insert_head(K, p, item) ==
    LET end == EndMarker(p)
        s1 == [K EXCEPT !.prev[item] = end]
        s2 == [s1 EXCEPT !.next[item] = s1.next[end]]
        s3 == [s2 EXCEPT !.prev[s2.next[end]] = item]
        s4 == [s3 EXCEPT !.next[end] = item]
        s5 == [s4 EXCEPT !.container[item] = ListPtr(p)]
    IN  [s5 EXCEPT !.length[p] = @ + 1]

\* List::insert_end, statement by statement
insert_end(K, p, item) ==
    LET end == EndMarker(p)
        s1 == [K EXCEPT !.next[item] = end]
        s2 == [s1 EXCEPT !.prev[item] = s1.prev[end]]
        s3 == [s2 EXCEPT !.next[s2.prev[end]] = item]
        s4 == [s3 EXCEPT !.prev[end] = item]
        s5 == [s4 EXCEPT !.container[item] = ListPtr(p)]
    IN  [s5 EXCEPT !.length[p] = @ + 1]

\* List::remove: whether the item passes the prev/next validation
remove_ok(K, item) == ~(K.next[item] = NULL \/ K.prev[item] = NULL)

\* List::remove as it would be without `self.length -= 1`
remove_no_decrement(K, p, item) ==
    IF ~remove_ok(K, item) THEN K
    ELSE
        LET s1 == [K EXCEPT !.prev[K.next[item]] = K.prev[item]]
            s2 == [s1 EXCEPT !.next[s1.prev[item]] = s1.next[item]]
        IN  [s2 EXCEPT !.container[item] = NULL,
                       !.next[item] = NULL,
                       !.prev[item] = NULL]

\* List::remove as it would be without `item.container = ptr::null_mut()`
remove_keeps_container(K, p, item) ==
    IF ~remove_ok(K, item) THEN K
    ELSE
        LET s1 == [K EXCEPT !.prev[K.next[item]] = K.prev[item]]
            s2 == [s1 EXCEPT !.next[s1.prev[item]] = s1.next[item]]
            s3 == IF s2.index[p] = item
                  THEN [s2 EXCEPT !.index[p] = s2.prev[item]]
                  ELSE s2
            s4 == [s3 EXCEPT !.next[item] = NULL, !.prev[item] = NULL]
        IN  [s4 EXCEPT !.length[p] = IF @ = 0 THEN USIZE_MAX ELSE @ - 1]

\* List::remove, statement by statement (the state after the call)
remove(K, p, item) ==
    IF ~remove_ok(K, item) THEN K
    ELSE
        LET s1 == [K EXCEPT !.prev[K.next[item]] = K.prev[item]]
            s2 == [s1 EXCEPT !.next[s1.prev[item]] = s1.next[item]]
            s3 == IF s2.index[p] = item
                  THEN [s2 EXCEPT !.index[p] = s2.prev[item]]
                  ELSE s2
            s4 == [s3 EXCEPT !.container[item] = NULL,
                             !.next[item] = NULL,
                             !.prev[item] = NULL]
        IN  [s4 EXCEPT !.length[p] = IF @ = 0 THEN USIZE_MAX ELSE @ - 1]

\* ListNode::get_value; the end marker's value is the one List::init gave it
get_value(n) == IF n \in EndMarkers THEN U64_MAX ELSE value[n]

\* List::init
init(K, p) ==
    LET end == EndMarker(p)
    IN  [K EXCEPT !.next[end] = end,
                  !.prev[end] = end,
                  !.length[p] = 0,
                  !.index[p] = end]

\* insert_sorted's loop from `iterator`: the node it breaks at. A null
\* link met on the way is dereferenced ("null"); a walk longer than there
\* are nodes has entered a cycle without the end marker and never ends
\* ("hang").
RECURSIVE find_position(_, _, _, _)
find_position(K, iterator, item_value, fuel) ==
    LET nxt == K.next[iterator] IN
    IF nxt = NULL THEN [kind |-> "null", node |-> NULL]
    ELSE IF get_value(nxt) >= item_value THEN [kind |-> "found", node |-> nxt]
    ELSE IF fuel = 0 THEN [kind |-> "hang", node |-> NULL]
    ELSE find_position(K, nxt, item_value, fuel - 1)

\* List::insert_sorted, statement by statement. Dereferencing a null
\* pointer is undefined behaviour and a loop that never ends returns
\* nothing: both end the run, recorded in `panic`.
insert_sorted(K, p, item) ==
    LET pos == find_position(K, EndMarker(p), get_value(item), NTasks + 1)
        iterator == pos.node
    IN  IF pos.kind = "null"
        THEN [K EXCEPT !.panic = "undefined: null pointer dereferenced"]
        ELSE IF pos.kind = "hang"
        THEN [K EXCEPT !.panic = "insert_sorted never returns"]
        ELSE
        LET s1 == [K EXCEPT !.next[item] = iterator]
            s2 == [s1 EXCEPT !.prev[item] = s1.prev[iterator]]
        IN  IF s2.prev[iterator] = NULL
            THEN [s2 EXCEPT !.panic = "undefined: null pointer dereferenced"]
            ELSE
            LET s3 == [s2 EXCEPT !.next[s2.prev[iterator]] = item]
                s4 == [s3 EXCEPT !.prev[iterator] = item]
                s5 == [s4 EXCEPT !.container[item] = ListPtr(p)]
            IN  [s5 EXCEPT !.length[p] = @ + 1]

\* ------------------------------------------------------------------------
\* kernel/scheduler.rs
\* ------------------------------------------------------------------------
\* update_top_ready_priority's scan as it would be without its loop
scan_top_idle(K, p) == IDLE_PRIORITY

\* Scheduler::update_top_ready_priority: the loop from `priority` downward
RECURSIVE scan_top(_, _)
scan_top(K, p) ==
    IF p > IDLE_PRIORITY
    THEN IF ~is_empty(K, p) THEN p ELSE scan_top(K, p - 1)
    ELSE IDLE_PRIORITY

update_top_ready_priority(K) ==
    [K EXCEPT !.top_ready_priority = scan_top(K, K.top_ready_priority)]

\* add_task_to_ready_list as it would be without raising the cache
add_task_no_raise(K, tcb) ==
    insert_end([K EXCEPT !.state[tcb] = "Ready"], priority[tcb], tcb)

\* add_task_to_ready_list as it would be with the list indexed by the cache
\* instead of the task's priority
add_task_wrong_list(K, tcb) ==
    LET s1 == [K EXCEPT !.state[tcb] = "Ready"]
        p == priority[tcb]
        s2 == insert_end(s1, s1.top_ready_priority, tcb)
    IN  IF p > s2.top_ready_priority
        THEN [s2 EXCEPT !.top_ready_priority = p]
        ELSE s2

\* Scheduler::add_task_to_ready_list
add_task_to_ready_list(K, tcb) ==
    LET s1 == [K EXCEPT !.state[tcb] = "Ready"]
        p == priority[tcb]
        s2 == insert_end(s1, p, tcb)
    IN  IF p > s2.top_ready_priority
        THEN [s2 EXCEPT !.top_ready_priority = p]
        ELSE s2

\* remove_task_from_ready_list as it would be without the cache update
remove_task_no_update(K, tcb) == remove(K, priority[tcb], tcb)

\* Scheduler::remove_task_from_ready_list (the state after the call; the
\* value it returns is remove_ok of the state before)
remove_task_from_ready_list(K, tcb) ==
    LET p == priority[tcb]
        removed == remove_ok(K, tcb)
        s1 == remove(K, p, tcb)
    IN  IF removed /\ is_empty(s1, p) /\ p = s1.top_ready_priority
        THEN update_top_ready_priority(s1)
        ELSE s1

\* select_highest_priority_task's loop as it would be with the test for
\* IDLE_PRIORITY ahead of the test of the list: list 0 is never looked at
RECURSIVE scan_ready_above_idle(_, _)
scan_ready_above_idle(K, p) ==
    LET node == get_head(K, p)
        tcb_ptr == IF node \in Tasks THEN owner[node] ELSE NULL
    IN  IF p = IDLE_PRIORITY THEN NULL
        ELSE IF ~is_empty(K, p) /\ node # NULL /\ tcb_ptr # NULL
        THEN tcb_ptr
        ELSE scan_ready_above_idle(K, p - 1)

\* Scheduler::select_highest_priority_task: the loop from `p` downward;
\* the selected TCB, NULL when the scan passes priority 0
RECURSIVE scan_ready(_, _)
scan_ready(K, p) ==
    LET node == get_head(K, p)
        tcb_ptr == IF node \in Tasks THEN owner[node] ELSE NULL
    IN  IF ~is_empty(K, p) /\ node # NULL /\ tcb_ptr # NULL
        THEN tcb_ptr
        ELSE IF p = IDLE_PRIORITY THEN NULL ELSE scan_ready(K, p - 1)

\* select_highest_priority_task as it would be if it moved the selected
\* task to the tail of its list
select_highest_and_rotate(K) ==
    LET s1 == IF K.current_task # NULL
              THEN [K EXCEPT !.state[K.current_task] = "Ready"]
              ELSE K
        tcb_ptr == scan_ready(s1, s1.top_ready_priority)
    IN  IF tcb_ptr # NULL
        THEN [insert_end(remove(s1, priority[tcb_ptr], tcb_ptr),
                         priority[tcb_ptr], tcb_ptr)
                EXCEPT !.state[tcb_ptr] = "Running", !.ret = tcb_ptr]
        ELSE [s1 EXCEPT !.ret = NULL]

\* select_highest_priority_task as it would be without
\* `(*tcb_ptr).state = TaskState::Running`
select_highest_unmarked(K) ==
    LET s1 == IF K.current_task # NULL
              THEN [K EXCEPT !.state[K.current_task] = "Ready"]
              ELSE K
    IN  [s1 EXCEPT !.ret = scan_ready(s1, s1.top_ready_priority)]

\* Scheduler::select_highest_priority_task
select_highest_priority_task(K) ==
    LET s1 == IF K.current_task # NULL
              THEN [K EXCEPT !.state[K.current_task] = "Ready"]
              ELSE K
        tcb_ptr == scan_ready(s1, s1.top_ready_priority)
    IN  IF tcb_ptr # NULL
        THEN [s1 EXCEPT !.state[tcb_ptr] = "Running", !.ret = tcb_ptr]
        ELSE [s1 EXCEPT !.ret = NULL]

\* select_next_different_task as it would be without setting the current
\* task aside
select_next_same_task(K) == select_highest_priority_task(K)

\* Scheduler::select_next_different_task, with a non-null current task: the
\* state right after the temporary removal ...
sndt_after_remove(K) == remove_task_from_ready_list(K, K.current_task)

\* ... and right after the inner selection, before current is added back
sndt_after_select(K) == select_highest_priority_task(sndt_after_remove(K))

\* select_next_different_task as it would be without the final
\* `current_ref.state = TaskState::Running`
select_next_no_restore(K) ==
    LET current == K.current_task IN
    IF current = NULL THEN select_highest_priority_task(K)
    ELSE
        LET p == priority[current]
            removed == remove_ok(K, current)
            s1 == sndt_after_remove(K)
            s2 == sndt_after_select(K)
            nxt == s2.ret
            s3 == add_task_to_ready_list([s2 EXCEPT !.state[current] = "Ready"],
                                         current)
        IN  IF ~removed
            THEN [s1 EXCEPT !.panic = "BUG: Failed to remove current task from ready list!"]
            ELSE IF p = 2 /\ ~is_empty(s1, p)
            THEN [s1 EXCEPT !.panic = "BUG: Task removed but list not empty!"]
            ELSE IF nxt # NULL /\ nxt # current
            THEN [s3 EXCEPT !.ret = nxt]
            ELSE [s3 EXCEPT !.ret = current]

\* Scheduler::select_next_different_task
select_next_different_task(K) ==
    LET current == K.current_task IN
    IF current = NULL THEN select_highest_priority_task(K)
    ELSE
        LET p == priority[current]
            removed == remove_ok(K, current)
            s1 == sndt_after_remove(K)
            s2 == sndt_after_select(K)
            nxt == s2.ret
            s3 == add_task_to_ready_list([s2 EXCEPT !.state[current] = "Ready"],
                                         current)
        IN  IF ~removed
            THEN [s1 EXCEPT !.panic = "BUG: Failed to remove current task from ready list!"]
            ELSE IF p = 2 /\ ~is_empty(s1, p)
            THEN [s1 EXCEPT !.panic = "BUG: Task removed but list not empty!"]
            ELSE IF nxt # NULL /\ nxt # current
            THEN [s3 EXCEPT !.ret = nxt]
            ELSE [s3 EXCEPT !.state[current] = "Running", !.ret = current]

\* yield_task as it would be with that insertion for the re-append
yield_task_to_head(K) ==
    IF K.current_task = NULL THEN K
    ELSE insert_head(
             [remove_task_from_ready_list(K, K.current_task)
                  EXCEPT !.state[K.current_task] = "Ready"],
             priority[K.current_task], K.current_task)

\* Scheduler::yield_task
yield_task(K) ==
    IF K.current_task = NULL THEN K
    ELSE add_task_to_ready_list(
             remove_task_from_ready_list(K, K.current_task), K.current_task)

\* Scheduler::get_current_task
get_current_task(K) == K.current_task

\* Scheduler::set_current_task
set_current_task(K, tcb) == [K EXCEPT !.current_task = tcb]

\* decrement_task_count as it would be without the decrement
decrement_task_count_skipped(K) == K

\* Scheduler::suspend, on the suspend depth and the MIE bit:
\* riscv::interrupt::disable() clears MIE
suspend(S) ==
    LET s1 == IF S.suspend_depth = 0 THEN [S EXCEPT !.mie = FALSE] ELSE S
    IN  [s1 EXCEPT !.suspend_depth = @ + 1]

\* resume as it would be with the enable at every call
resume_always_enables(S) ==
    IF S.suspend_depth > 0
    THEN [S EXCEPT !.suspend_depth = @ - 1, !.mie = TRUE]
    ELSE S

\* Scheduler::resume: riscv::interrupt::enable() sets MIE
resume(S) ==
    IF S.suspend_depth > 0
    THEN LET s1 == [S EXCEPT !.suspend_depth = @ - 1]
         IN  IF s1.suspend_depth = 0 THEN [s1 EXCEPT !.mie = TRUE] ELSE s1
    ELSE S

\* Scheduler::is_suspended
is_suspended(S) == S.suspend_depth > 0

\* Scheduler::increment_task_count / decrement_task_count
increment_task_count(K) == [K EXCEPT !.task_count = @ + 1]

decrement_task_count(K) ==
    IF K.task_count > 0 THEN [K EXCEPT !.task_count = @ - 1] ELSE K

\* add_task_to_scheduler (global)
add_task_to_scheduler(K, tcb) ==
    increment_task_count(add_task_to_ready_list(K, tcb))

\* remove_task_from_scheduler as it would be with the decrement outside
\* `if removed`
remove_task_always_counts(K, tcb) ==
    LET removed == remove_ok(K, tcb)
        s1 == remove_task_from_ready_list(K, tcb)
    IN  [decrement_task_count(s1) EXCEPT !.ret = removed]

\* remove_task_from_scheduler (global)
remove_task_from_scheduler(K, tcb) ==
    LET removed == remove_ok(K, tcb)
        s1 == remove_task_from_ready_list(K, tcb)
    IN  [(IF removed THEN decrement_task_count(s1) ELSE s1) EXCEPT !.ret = removed]

\* ------------------------------------------------------------------------
\* kernel/types.rs: TickType(u64). A u64 is kept at its full width as four
\* 16-bit limbs, least significant first.
\* ------------------------------------------------------------------------
LimbBits == 16
LimbCount == 4
LIMB == 2 ^ LimbBits

\* The u64 of a number below 2^31
U64(n) == <<n % LIMB, (n \div LIMB) % LIMB, 0, 0>>

\* TickType::new, TickType::zero, TickType::max
TickType_new(v) == v
TickType_zero == U64(0)
TickType_max == <<LIMB - 1, LIMB - 1, LIMB - 1, LIMB - 1>>

\* u64::wrapping_add: limb by limb; the carry out of the last limb is lost
RECURSIVE u64_add(_, _, _, _)
u64_add(a, b, i, carry) ==
    IF i > LimbCount THEN <<>>
    ELSE LET sum == a[i] + b[i] + carry
         IN  <<sum % LIMB>> \o u64_add(a, b, i + 1, sum \div LIMB)

\* u64::wrapping_sub: limb by limb; the borrow out of the last limb is lost
RECURSIVE u64_sub(_, _, _, _)
u64_sub(a, b, i, borrow) ==
    IF i > LimbCount THEN <<>>
    ELSE LET diff == a[i] - b[i] - borrow
         IN  <<diff % LIMB>> \o
             u64_sub(a, b, i + 1, IF diff < 0 THEN 1 ELSE 0)

\* The carry out of the last limb of a + b
RECURSIVE u64_carry(_, _, _, _)
u64_carry(a, b, i, carry) ==
    IF i > LimbCount THEN carry
    ELSE u64_carry(a, b, i + 1, (a[i] + b[i] + carry) \div LIMB)

\* wrapping_add as it would be with u64::saturating_add
TickType_saturating_add(self, other) ==
    IF u64_carry(self, other, 1, 0) = 1
    THEN TickType_max
    ELSE u64_add(self, other, 1, 0)

\* TickType::wrapping_add
TickType_wrapping_add(self, other) == u64_add(self, other, 1, 0)

\* TickType::elapsed_since
TickType_elapsed_since(self, earlier) == u64_sub(self, earlier, 1, 0)

\* Scheduler::increment_tick, on tick_count
increment_tick(tick) == TickType_wrapping_add(tick, TickType_new(U64(1)))

\* Scheduler::get_tick_count
get_tick_count(tick) == tick

\* ------------------------------------------------------------------------
\* kernel/task.rs
\* ------------------------------------------------------------------------
\* TaskControlBlock::update_list_item_owners: the owner written to the
\* state_list_item of `tcb`
update_list_item_owners(tcb) == tcb

\* ListNode::new
ListNode_new ==
    [next |-> NULL, prev |-> NULL, container |-> NULL, value |-> 0,
     owner |-> NULL]

\* TaskControlBlock::new as it would be without the assertion on the
\* priority
TaskControlBlock_new_unchecked(prio, stack, stack_size) ==
    IF ~(stack_size >= MIN_STACK_SIZE)
    THEN [panic |-> "Stack size is below minimum required size", tcb |-> <<>>]
    ELSE
    LET state_item == [ListNode_new EXCEPT !.value = MAX_PRIORITIES - prio]
        event_item == [ListNode_new EXCEPT !.value = MAX_PRIORITIES - prio]
    IN  [panic |-> "none",
         tcb |-> <<[stack_top |-> stack,
                    state_list_item |-> state_item,
                    event_list_item |-> event_item,
                    priority |-> prio,
                    base_priority |-> prio,
                    stack_base |-> stack,
                    stack_size |-> stack_size,
                    state |-> "Ready",
                    delay_until |-> 0,
                    mutexes_held |-> 0]>>]

\* TaskControlBlock::new: the panic of a failed assertion, or the TCB
TaskControlBlock_new(prio, stack, stack_size) ==
    IF ~(prio < MAX_PRIORITIES)
    THEN [panic |-> "Priority exceeds maximum allowed priority", tcb |-> <<>>]
    ELSE IF ~(stack_size >= MIN_STACK_SIZE)
    THEN [panic |-> "Stack size is below minimum required size", tcb |-> <<>>]
    ELSE
    LET state_item == [ListNode_new EXCEPT !.value = MAX_PRIORITIES - prio]
        event_item == [ListNode_new EXCEPT !.value = MAX_PRIORITIES - prio]
    IN  [panic |-> "none",
         tcb |-> <<[stack_top |-> stack,
                    state_list_item |-> state_item,
                    event_list_item |-> event_item,
                    priority |-> prio,
                    base_priority |-> prio,
                    stack_base |-> stack,
                    stack_size |-> stack_size,
                    state |-> "Ready",
                    delay_until |-> 0,
                    mutexes_held |-> 0]>>]

\* update_list_item_owners as it would be without its assertion
TaskControlBlock_update_owners_unchecked(T, tcb_ptr) ==
    [panic |-> "none",
     tcb |-> [T EXCEPT !.state_list_item.owner = tcb_ptr,
                       !.event_list_item.owner = tcb_ptr]]

\* TaskControlBlock::update_list_item_owners on the TCB T placed at address
\* tcb_ptr: the panic of the failed assertion, or the TCB with both owners
TaskControlBlock_update_list_item_owners(T, tcb_ptr) ==
    IF ~(T.state_list_item.owner = NULL)
    THEN [panic |-> "TCB list items already initialized!", tcb |-> T]
    ELSE [panic |-> "none",
          tcb |-> [T EXCEPT !.state_list_item.owner = tcb_ptr,
                            !.event_list_item.owner = tcb_ptr]]

\* TaskControlBlock::init_static
TaskControlBlock_init_static(T, tcb_ptr) ==
    TaskControlBlock_update_list_item_owners(T, tcb_ptr)

\* ------------------------------------------------------------------------
\* arch/mod.rs
\* ------------------------------------------------------------------------
\* x & !(STACK_ALIGNMENT - 1)
align_down(x) == x - (x % STACK_ALIGNMENT)

\* initialize_task_stack: the pointer it returns for a buffer of `len`
\* words at byte address `base`
initialize_task_stack(base, len) ==
    LET stack_top == base + len * WORD_BYTES
        aligned_top == align_down(stack_top)
    IN  aligned_top - CONTEXT_WORDS * WORD_BYTES

\* initialize_task_stack's stores as they would be with one more word
\* zeroed than the frame holds
stack_stores_one_more(base, len, entry) ==
    LET sp == initialize_task_stack(base, len)
        zeroed == [a \in {sp + i * WORD_BYTES : i \in 0..CONTEXT_WORDS} |-> 0]
    IN  [zeroed EXCEPT ![sp] = entry]

\* initialize_task_stack: the words it stores, by byte address: the loop
\* `*sp.add(i) = 0` for i in 0..31, then `*sp = entry`
stack_stores(base, len, entry) ==
    LET sp == initialize_task_stack(base, len)
        zeroed == [a \in {sp + i * WORD_BYTES : i \in 0..(CONTEXT_WORDS - 1)}
                        |-> 0]
    IN  [zeroed EXCEPT ![sp] = entry]

\* disable_interrupts: the value it returns (whether MIE was set) and the
\* MIE bit it leaves
disable_interrupts(m) == [was_enabled |-> m, mie |-> FALSE]

\* enable_interrupts: the MIE bit it leaves
enable_interrupts == TRUE

\* restore_interrupts as it would be without the test of `enabled`
restore_interrupts_always(m, enabled) == enable_interrupts

\* restore_interrupts: the MIE bit it leaves
restore_interrupts(m, enabled) == IF enabled THEN enable_interrupts ELSE m

\* ------------------------------------------------------------------------
\* Initial values
\* ------------------------------------------------------------------------
\* ListNode::new for every state_list_item, List::init for every ready list
InitLists ==
    /\ next = [n \in Nodes |-> IF n \in EndMarkers THEN n ELSE NULL]
    /\ prev = [n \in Nodes |-> IF n \in EndMarkers THEN n ELSE NULL]
    /\ container = [t \in Tasks |-> NULL]
    /\ length = [p \in Priorities |-> 0]
    /\ index = [p \in Priorities |-> EndMarker(p)]

\* Scheduler::init
InitSched ==
    /\ current_task = NULL
    /\ top_ready_priority = IDLE_PRIORITY
    /\ task_count = 0

InitCall == panic = "none" /\ op = "init" /\ ret = NULL

IdleProto ==
    /\ pc = "api"
    /\ cpu = 0
    /\ ntasks = 0
    /\ l_current = NULL
    /\ l_next = NULL
    /\ prev_current = NULL

IdleStack ==
    stack_base = 0 /\ stack_len = 0 /\ stack_sp = NULL /\ stack_mem = <<>>

\* TaskControlBlock::new (task.rs 63): the sort value of a state_list_item
TaskValues == value = [t \in Tasks |-> MAX_PRIORITIES - priority[t]]

IdleNodes == arg = NULL /\ old = NULL /\ misuse = 0

\* Interrupts on, no guard alive, scheduler not suspended
IdleIrq ==
    /\ mie = TRUE
    /\ guards = <<>>
    /\ suspend_depth = 0
    /\ cs_clean = FALSE
    /\ sr_only = TRUE
    /\ mie0 = TRUE
    /\ nest = <<>>
    /\ nest_ok = TRUE

\* Scheduler::new / Scheduler::init: time starts at 0
IdleTick ==
    tick_count = TickType_zero /\ tick_start = TickType_zero /\ tick_calls = 0

IdleFifo == fifo = <<>>

IdleNew ==
    new_tcb = <<>> /\ new_priority = 0 /\ new_stack_size = 0 /\ owner_calls = 0

\* The scheduler API driven by an arbitrary caller. Every TCB has been built
\* by TaskControlBlock::new (state Ready, node unlinked) and finalized by
\* update_list_item_owners; the scheduler has been initialised. Tasks are
\* numbered in the order of their priorities (the caller may register them
\* in any order).
Init ==
    /\ InitLists
    /\ InitSched
    /\ IdleTick
    /\ IdleFifo
    /\ InitCall
    /\ IdleProto
    /\ IdleStack
    /\ IdleNodes
    /\ IdleIrq
    /\ IdleNew
    /\ priority \in {f \in [Tasks -> PrioChoices] :
                        \A t, u \in Tasks : t < u => f[t] <= f[u]}
    /\ owner = [t \in Tasks |-> update_list_item_owners(t)]
    /\ state = [t \in Tasks |-> "Ready"]
    /\ TaskValues

\* ------------------------------------------------------------------------
\* The API actions: one per public scheduler entry point
\* ------------------------------------------------------------------------
Live == pc = "api" /\ panic = "none"

Frame ==
    UNCHANGED <<owner, priority, protoVars, stackVars, nodeVars, irqVars,
                newVars, tickVars, fifo>>

\* add_task_to_scheduler(tcb), on a TCB that is not linked
AddTask(t) ==
    /\ Live
    /\ ~is_in_list(Kernel, t)
    /\ Commit([add_task_to_scheduler(Kernel, t) EXCEPT !.ret = NULL])
    /\ op' = "add"
    /\ Frame

\* remove_task_from_scheduler(tcb)
RemoveTask(t) ==
    /\ Live
    /\ Commit(remove_task_from_scheduler(Kernel, t))
    /\ op' = "remove"
    /\ Frame

\* select_next_task()
SelectNextTask ==
    /\ Live
    /\ Commit(select_highest_priority_task(Kernel))
    /\ op' = "select_highest"
    /\ Frame

\* select_next_different_task()
SelectNextDifferentTask ==
    /\ Live
    /\ Commit(select_next_different_task(Kernel))
    /\ op' = "select_next_different"
    /\ Frame

\* yield_current_task()
YieldCurrentTask ==
    /\ Live
    /\ Commit([yield_task(Kernel) EXCEPT !.ret = NULL])
    /\ op' = "yield"
    /\ Frame

\* set_current_task(tcb), with any TCB or null
SetCurrentTask(t) ==
    /\ Live
    /\ Commit([set_current_task(Kernel, t) EXCEPT !.ret = NULL])
    /\ op' = "set_current"
    /\ Frame

Next ==
    \/ \E t \in Tasks : AddTask(t)
    \/ \E t \in Tasks : RemoveTask(t)
    \/ SelectNextTask
    \/ SelectNextDifferentTask
    \/ YieldCurrentTask
    \/ \E t \in Tasks \cup {NULL} : SetCurrentTask(t)

Spec == Init /\ [][Next]_vars

\* ------------------------------------------------------------------------
\* The demo protocol of main.rs: main registers the tasks, selects the
\* first one and starts it; every task then repeats its yield block.
\* ------------------------------------------------------------------------
\* Priorities of the mixed configurations: those of idle_task, task2 and
\* task1, and one above them
DemoPrioChoices == {0, 1, 2, 5}

\* mstatus.MIE when main is entered is whatever the boot code left: nothing
\* in main.rs sets or clears it. No CriticalSection guard is alive and the
\* scheduler is not suspended (Scheduler::new, suspend_depth 0).
BootIrq ==
    /\ mie \in BOOLEAN
    /\ guards = <<>>
    /\ suspend_depth = 0
    /\ cs_clean = FALSE
    /\ sr_only = TRUE
    /\ mie0 = mie
    /\ nest = <<>>
    /\ nest_ok = TRUE

\* main creates tasks 1..ntasks in this order, all at one priority (any of
\* the 32) or each at a priority of DemoPrioChoices. The state is the one
\* right after init_scheduler(): no TCB is finalized or registered yet.
DemoInit ==
    /\ InitLists
    /\ InitSched
    /\ IdleTick
    /\ IdleFifo
    /\ InitCall
    /\ IdleStack
    /\ IdleNodes
    /\ BootIrq
    /\ IdleNew
    /\ pc = "main_create"
    /\ cpu = 0
    /\ ntasks \in 0..NTasks
    /\ l_current = NULL
    /\ l_next = NULL
    /\ prev_current = NULL
    /\ priority \in {f \in [Tasks -> Priorities] :
            /\ \A t \in Tasks : t > ntasks => f[t] = 0
            /\ \/ \A t, u \in 1..ntasks : f[t] = f[u]
               \/ \A t \in 1..ntasks : f[t] \in DemoPrioChoices}
    /\ owner = [t \in Tasks |-> NULL]
    /\ state = [t \in Tasks |-> "Ready"]
    /\ TaskValues

DemoFrame ==
    UNCHANGED <<priority, ntasks, stackVars, nodeVars, irqVars, newVars,
                tickVars, fifo>>

\* main.rs 256-308: update_list_item_owners and add_task_to_scheduler for
\* the next task
MainCreateTask ==
    /\ pc = "main_create"
    /\ task_count < ntasks
    /\ LET t == task_count + 1 IN
        /\ owner' = [owner EXCEPT ![t] = update_list_item_owners(t)]
        /\ Commit([add_task_to_scheduler(Kernel, t) EXCEPT !.ret = NULL])
    /\ op' = "add"
    /\ UNCHANGED <<pc, cpu, l_current, l_next, prev_current>>
    /\ DemoFrame

\* main.rs 378-380, 392-398: first_task = select_next_task(); a null first
\* task ends in panic!("Scheduler failed to start!")
MainSelectFirst ==
    /\ pc = "main_create"
    /\ task_count = ntasks
    /\ LET K == select_highest_priority_task(Kernel) IN
        /\ Commit([K EXCEPT !.panic = IF K.ret = NULL
                                      THEN "Scheduler failed to start!"
                                      ELSE "none"])
        /\ l_next' = K.ret
        /\ pc' = IF K.ret = NULL THEN "main_fail" ELSE "main_start"
    /\ op' = "select_highest"
    /\ UNCHANGED <<owner, cpu, l_current, prev_current>>
    /\ DemoFrame

\* main.rs 386-391: set_current_task(first_task); start_first_task(first_task)
MainStartFirst ==
    /\ pc = "main_start"
    /\ Commit([set_current_task(Kernel, l_next) EXCEPT !.ret = NULL])
    /\ op' = "set_current"
    /\ prev_current' = current_task
    /\ cpu' = l_next
    /\ pc' = "task_body"
    /\ UNCHANGED <<owner, l_current, l_next>>
    /\ DemoFrame

\* main.rs 96-99, 127-180, 216-218: current = get_current_task();
\* next = select_next_different_task(); the test of the result
TaskSelect ==
    /\ pc = "task_body"
    /\ panic = "none"
    /\ LET K == select_next_different_task(Kernel) IN
        /\ Commit(K)
        /\ l_current' = current_task
        /\ l_next' = IF K.panic = "none" THEN K.ret ELSE l_next
        /\ pc' = IF K.panic # "none" THEN "halt"
                 ELSE IF K.ret # current_task /\ K.ret # NULL THEN "task_yield"
                 ELSE "task_body"
    /\ op' = "select_next_different"
    /\ UNCHANGED <<owner, cpu, prev_current>>
    /\ DemoFrame

\* main.rs 101, 184, 220: yield_current_task()
TaskYield ==
    /\ pc = "task_yield"
    /\ Commit([yield_task(Kernel) EXCEPT !.ret = NULL])
    /\ op' = "yield"
    /\ pc' = "task_switch"
    /\ UNCHANGED <<owner, cpu, l_current, l_next, prev_current>>
    /\ DemoFrame

\* switch_context as it would be without the call of set_current_task
switch_context_no_update(K, from_tcb, to_tcb) == K

\* arch/mod.rs 70-77: switch_context(current, next): set_current_task(to),
\* then the assembly routine resumes `to`
switch_context(K, from_tcb, to_tcb) == set_current_task(K, to_tcb)

TaskSwitch ==
    /\ pc = "task_switch"
    /\ Commit([switch_context(Kernel, l_current, l_next) EXCEPT !.ret = NULL])
    /\ op' = "switch_context"
    /\ prev_current' = current_task
    /\ cpu' = l_next
    /\ pc' = "task_body"
    /\ UNCHANGED <<owner, l_current, l_next>>
    /\ DemoFrame

DemoNext ==
    \/ MainCreateTask
    \/ MainSelectFirst
    \/ MainStartFirst
    \/ TaskSelect
    \/ TaskYield
    \/ TaskSwitch

SpecDemo == DemoInit /\ [][DemoNext]_vars

\* Whether a step of the protocol that changes the state is possible: main
\* and the yield block always move on; the selection of a task that is
\* alone repeats the state it started in; after a panic nothing runs.
DemoEnabled ==
    \/ pc \in {"main_create", "main_start", "task_yield", "task_switch"}
    \/ /\ pc = "task_body"
       /\ panic = "none"
       /\ LET K == select_next_different_task(Kernel) IN
            \/ K # Kernel
            \/ op # "select_next_different"
            \/ l_current # current_task
            \/ l_next # K.ret

\* The hart never stops executing: weak fairness of DemoNext, written with
\* DemoEnabled for ENABLED <<DemoNext>>_vars.
FairSpecDemo ==
    SpecDemo /\ ([]<>(~DemoEnabled) \/ []<><<DemoNext>>_vars)

\* ------------------------------------------------------------------------
\* initialize_task_stack applied to stack buffers
\* ------------------------------------------------------------------------
\* Byte addresses of the buffers: every 8-byte aligned address from
\* StackBase0 on, so both residues modulo 16 occur
StackBase0 == 512 * WORD_BYTES

\* Address of the task's entry function
EntryAddr == 64 * WORD_BYTES

StackInit ==
    /\ InitLists
    /\ InitSched
    /\ IdleTick
    /\ IdleFifo
    /\ InitCall
    /\ IdleProto
    /\ IdleNodes
    /\ IdleIrq
    /\ IdleNew
    /\ stack_mem = <<>>
    /\ priority = [t \in Tasks |-> 0]
    /\ owner = [t \in Tasks |-> NULL]
    /\ state = [t \in Tasks |-> "Ready"]
    /\ TaskValues
    /\ stack_base \in {StackBase0 + WORD_BYTES * k : k \in 0..(NStackBases - 1)}
    /\ stack_len \in MIN_STACK_SIZE..(MIN_STACK_SIZE + NStackLens - 1)
    /\ stack_sp = NULL

\* let sp = initialize_task_stack(entry, &mut STACK)
InitializeTaskStack ==
    /\ stack_sp = NULL
    /\ stack_sp' = initialize_task_stack(stack_base, stack_len)
    /\ stack_mem' = stack_stores(stack_base, stack_len, EntryAddr)
    /\ UNCHANGED <<listVars, tcbVars, schedVars, callVars, protoVars,
                   stack_base, stack_len, nodeVars, irqVars, newVars,
                   tickVars, fifo>>

StackNext == InitializeTaskStack

SpecStack == StackInit /\ [][StackNext]_vars

\* ------------------------------------------------------------------------
\* One List driven by an arbitrary caller: ready_lists[0] stands for the
\* list and the state_list_items of the tasks for the nodes. Any operation
\* may be applied to any node at any time.
\* ------------------------------------------------------------------------
TheList == 0

\* The sort values the nodes are given
NodeValues == {1, 2}

\* The nodes the caller works with
ListNodes == 1..NNodes

\* Inserts are taken while the length is below this
MaxLength == NNodes + 1

ListSpecInit ==
    /\ InitLists
    /\ InitSched
    /\ IdleTick
    /\ IdleFifo
    /\ InitCall
    /\ IdleStack
    /\ IdleNodes
    /\ IdleIrq
    /\ IdleNew
    /\ pc = "list"
    /\ cpu = 0
    /\ ntasks = 0
    /\ l_current = NULL
    /\ l_next = NULL
    /\ prev_current = NULL
    /\ priority = [t \in Tasks |-> 0]
    /\ owner = [t \in Tasks |-> NULL]
    /\ state = [t \in Tasks |-> "Ready"]
    /\ value \in {f \in [Tasks -> NodeValues] :
                        /\ \A t, u \in ListNodes : t < u => f[t] <= f[u]
                        /\ \A t \in Tasks \ ListNodes : f[t] = 1}

ListLive == pc = "list" /\ panic = "none"

ListFrame ==
    UNCHANGED <<owner, priority, protoVars, stackVars, value, old, irqVars,
                newVars, tickVars, fifo>>

\* The node carries links or a container: it was inserted and not removed
NodeInUse(item) ==
    next[item] # NULL \/ prev[item] # NULL \/ container[item] # NULL

\* The caller may break the discipline MaxMisuse times
Misuse(broken) ==
    /\ broken => misuse < MaxMisuse
    /\ misuse' = IF broken THEN misuse + 1 ELSE misuse

\* list.init()
ListInit ==
    /\ ListLive
    /\ Misuse(\E n \in ListNodes : NodeInUse(n))
    /\ Commit([init(Kernel, TheList) EXCEPT !.ret = NULL])
    /\ op' = "list_init"
    /\ arg' = NULL
    /\ ListFrame

\* list.insert_sorted(item)
ListInsertSorted(item) ==
    /\ ListLive
    /\ length[TheList] < MaxLength
    /\ Misuse(NodeInUse(item))
    /\ Commit([insert_sorted(Kernel, TheList, item) EXCEPT !.ret = NULL])
    /\ op' = "insert_sorted"
    /\ arg' = item
    /\ ListFrame

\* list.insert_end(item)
ListInsertEnd(item) ==
    /\ ListLive
    /\ length[TheList] < MaxLength
    /\ Misuse(NodeInUse(item))
    /\ Commit([insert_end(Kernel, TheList, item) EXCEPT !.ret = NULL])
    /\ op' = "insert_end"
    /\ arg' = item
    /\ ListFrame

\* list.remove(item). `self.length -= 1` at length 0 panics in a build with
\* overflow checks and wraps in a build without.
ListRemove(item) ==
    /\ ListLive
    /\ LET K == [remove(Kernel, TheList, item)
                    EXCEPT !.ret = remove_ok(Kernel, item)]
       IN  \/ Commit(K)
           \/ /\ remove_ok(Kernel, item)
              /\ length[TheList] = 0
              /\ Commit([K EXCEPT !.length[TheList] = 0,
                                  !.panic = "attempt to subtract with overflow"])
    /\ op' = "list_remove"
    /\ arg' = item
    /\ UNCHANGED misuse
    /\ ListFrame

ListNext ==
    \/ ListInit
    \/ \E item \in ListNodes : ListInsertSorted(item)
    \/ \E item \in ListNodes : ListInsertEnd(item)
    \/ \E item \in ListNodes : ListRemove(item)

SpecList == ListSpecInit /\ [][ListNext]_vars

\* ------------------------------------------------------------------------
\* Interrupt control: CriticalSection guards (arch/mod.rs) and the
\* scheduler's suspend / resume (kernel/scheduler.rs), called in any order
\* ------------------------------------------------------------------------
IrqInit ==
    /\ InitLists
    /\ InitSched
    /\ IdleTick
    /\ IdleFifo
    /\ InitCall
    /\ IdleStack
    /\ IdleNew
    /\ arg = NULL
    /\ misuse = 0
    /\ pc = "irq"
    /\ cpu = 0
    /\ ntasks = 0
    /\ l_current = NULL
    /\ l_next = NULL
    /\ prev_current = NULL
    /\ priority = [t \in Tasks |-> 0]
    /\ owner = [t \in Tasks |-> NULL]
    /\ state = [t \in Tasks |-> "Ready"]
    /\ TaskValues
    /\ mie \in BOOLEAN
    /\ guards = <<>>
    /\ suspend_depth = 0
    /\ cs_clean = FALSE
    /\ sr_only = TRUE
    /\ mie0 = mie
    /\ nest = <<>>
    /\ nest_ok = TRUE
    /\ old = [suspend_depth |-> 0, mie |-> mie]

IrqFrame ==
    UNCHANGED <<listVars, tcbVars, schedVars, panic, ret, protoVars,
                stackVars, value, arg, misuse, newVars, tickVars, fifo>>

IrqState == [suspend_depth |-> suspend_depth, mie |-> mie]

\* The record of nesting after an enter (kind "cs") or a suspend (kind
\* "sr"): one more open region; nothing is recorded once a call was out of
\* order.
Open(kind) ==
    /\ nest' = IF nest_ok THEN Append(nest, kind) ELSE <<>>
    /\ UNCHANGED nest_ok

\* The record of nesting after a drop (kind "cs") or a resume (kind "sr"):
\* it closes the innermost open region when `matched` holds and that region
\* is of the same kind; anything else is out of order from then on.
Close(kind, matched) ==
    LET inner == /\ nest_ok
                 /\ matched
                 /\ nest # <<>>
                 /\ nest[Len(nest)] = kind
    IN  /\ nest' = IF inner THEN SubSeq(nest, 1, Len(nest) - 1) ELSE <<>>
        /\ nest_ok' = inner

\* let guard = CriticalSection::enter()
CsEnter ==
    /\ pc = "irq"
    /\ Len(guards) < MaxGuards
    /\ LET r == disable_interrupts(mie) IN
        /\ guards' = Append(guards, r.was_enabled)
        /\ mie' = r.mie
    /\ cs_clean' = IF guards = <<>> THEN TRUE ELSE cs_clean
    /\ mie0' = IF guards = <<>> THEN mie ELSE mie0
    /\ sr_only' = FALSE
    /\ Open("cs")
    /\ op' = "cs_enter"
    /\ old' = IrqState
    /\ UNCHANGED suspend_depth
    /\ IrqFrame

\* drop(guard) of the i-th live guard; the last one in LIFO order
CsDrop(i) ==
    /\ pc = "irq"
    /\ i \in 1..Len(guards)
    /\ mie' = restore_interrupts(mie, guards[i])
    /\ guards' = SubSeq(guards, 1, i - 1) \o SubSeq(guards, i + 1, Len(guards))
    /\ cs_clean' = (cs_clean /\ i = Len(guards))
    /\ sr_only' = FALSE
    /\ Close("cs", i = Len(guards))
    /\ op' = "cs_drop"
    /\ old' = IrqState
    /\ UNCHANGED <<suspend_depth, mie0>>
    /\ IrqFrame

\* suspend_scheduler()
Suspend ==
    /\ pc = "irq"
    /\ suspend_depth < MaxDepth
    /\ LET S == suspend(IrqState) IN
        /\ suspend_depth' = S.suspend_depth
        /\ mie' = S.mie
    /\ cs_clean' = FALSE
    /\ Open("sr")
    /\ op' = "suspend"
    /\ old' = IrqState
    /\ UNCHANGED <<guards, sr_only, mie0>>
    /\ IrqFrame

\* resume_scheduler()
Resume ==
    /\ pc = "irq"
    /\ LET S == resume(IrqState) IN
        /\ suspend_depth' = S.suspend_depth
        /\ mie' = S.mie
    /\ cs_clean' = FALSE
    /\ Close("sr", suspend_depth > 0)
    /\ op' = "resume"
    /\ old' = IrqState
    /\ UNCHANGED <<guards, sr_only, mie0>>
    /\ IrqFrame

IrqNext ==
    \/ CsEnter
    \/ \E i \in 1..MaxGuards : CsDrop(i)
    \/ Suspend
    \/ Resume

SpecIrq == IrqInit /\ [][IrqNext]_vars

\* ------------------------------------------------------------------------
\* One TCB: TaskControlBlock::new with any arguments, then
\* update_list_item_owners / init_static any number of times
\* ------------------------------------------------------------------------
\* Where the TCB is placed
TcbAddr == 1

TcbInit ==
    /\ InitLists
    /\ InitSched
    /\ IdleTick
    /\ IdleFifo
    /\ InitCall
    /\ IdleStack
    /\ IdleNodes
    /\ IdleIrq
    /\ pc = "tcb"
    /\ cpu = 0
    /\ ntasks = 0
    /\ l_current = NULL
    /\ l_next = NULL
    /\ prev_current = NULL
    /\ priority = [t \in Tasks |-> 0]
    /\ owner = [t \in Tasks |-> NULL]
    /\ state = [t \in Tasks |-> "Ready"]
    /\ TaskValues
    /\ new_tcb = <<>>
    /\ new_priority \in 0..(MAX_PRIORITIES + NPrioOver)
    /\ new_stack_size \in
            (MIN_STACK_SIZE - NSizeAround)..(MIN_STACK_SIZE + NSizeAround)
    /\ owner_calls = 0

TcbFrame ==
    UNCHANGED <<listVars, tcbVars, schedVars, ret, protoVars, stackVars,
                value, arg, misuse, irqVars, new_priority, new_stack_size,
                tickVars, fifo>>

\* let tcb = TaskControlBlock::new(name, priority, stack, stack_size)
TcbNew ==
    /\ pc = "tcb"
    /\ panic = "none"
    /\ new_tcb = <<>>
    /\ LET r == TaskControlBlock_new(new_priority, NULL, new_stack_size) IN
        /\ panic' = r.panic
        /\ new_tcb' = r.tcb
    /\ op' = "new"
    /\ old' = new_tcb
    /\ UNCHANGED owner_calls
    /\ TcbFrame

\* tcb.update_list_item_owners()
TcbUpdateListItemOwners ==
    /\ pc = "tcb"
    /\ panic = "none"
    /\ new_tcb # <<>>
    /\ LET r == TaskControlBlock_update_list_item_owners(new_tcb[1], TcbAddr)
       IN  /\ panic' = r.panic
           /\ new_tcb' = <<r.tcb>>
    /\ op' = "update_list_item_owners"
    /\ old' = new_tcb
    /\ owner_calls' = owner_calls + 1
    /\ TcbFrame

\* TaskControlBlock::init_static(&mut tcb)
TcbInitStatic ==
    /\ pc = "tcb"
    /\ panic = "none"
    /\ new_tcb # <<>>
    /\ LET r == TaskControlBlock_init_static(new_tcb[1], TcbAddr)
       IN  /\ panic' = r.panic
           /\ new_tcb' = <<r.tcb>>
    /\ op' = "init_static"
    /\ old' = new_tcb
    /\ owner_calls' = owner_calls + 1
    /\ TcbFrame

TcbNext ==
    \/ TcbNew
    \/ TcbUpdateListItemOwners
    \/ TcbInitStatic

SpecTcb == TcbInit /\ [][TcbNext]_vars

\* ------------------------------------------------------------------------
\* One list built with insert_sorted and remove only
\* ------------------------------------------------------------------------
\* Values of the nodes: the smallest, one above it, and u64::MAX, which is
\* also the end marker's
SortedValues == {0, 1, U64_MAX}

SortedInit ==
    /\ InitLists
    /\ InitSched
    /\ IdleTick
    /\ IdleFifo
    /\ InitCall
    /\ IdleStack
    /\ IdleNodes
    /\ IdleIrq
    /\ IdleNew
    /\ pc = "list"
    /\ cpu = 0
    /\ ntasks = 0
    /\ l_current = NULL
    /\ l_next = NULL
    /\ prev_current = NULL
    /\ priority = [t \in Tasks |-> 0]
    /\ owner = [t \in Tasks |-> NULL]
    /\ state = [t \in Tasks |-> "Ready"]
    /\ value \in {f \in [Tasks -> SortedValues] :
                        \A t \in Tasks \ ListNodes : f[t] = 1}

SortedNext ==
    \/ \E item \in ListNodes : ListInsertSorted(item)
    \/ \E item \in ListNodes : ListRemove(item)

SpecSorted == SortedInit /\ [][SortedNext]_vars

\* ------------------------------------------------------------------------
\* One list used as a queue: insert_end of nodes that are not linked,
\* remove, get_head
\* ------------------------------------------------------------------------
\* The sequence q without the element x
Without(q, x) == SelectSeq(q, LAMBDA y : y # x)

FifoInit ==
    /\ InitLists
    /\ InitSched
    /\ IdleTick
    /\ InitCall
    /\ IdleStack
    /\ IdleNodes
    /\ IdleIrq
    /\ IdleNew
    /\ pc = "fifo"
    /\ cpu = 0
    /\ ntasks = 0
    /\ l_current = NULL
    /\ l_next = NULL
    /\ prev_current = NULL
    /\ priority = [t \in Tasks |-> 0]
    /\ owner = [t \in Tasks |-> NULL]
    /\ state = [t \in Tasks |-> "Ready"]
    /\ value = [t \in Tasks |-> 0]
    /\ fifo = <<>>

FifoFrame ==
    UNCHANGED <<owner, priority, protoVars, stackVars, value, old, misuse,
                irqVars, newVars, tickVars>>

\* list.insert_end(item), on a node that is not linked
FifoInsertEnd(item) ==
    /\ pc = "fifo"
    /\ panic = "none"
    /\ ~NodeInUse(item)
    /\ Commit([insert_end(Kernel, TheList, item) EXCEPT !.ret = NULL])
    /\ fifo' = Append(fifo, item)
    /\ op' = "insert_end"
    /\ arg' = item
    /\ FifoFrame

\* list.remove(item); `self.length -= 1` at length 0 would panic
FifoRemove(item) ==
    /\ pc = "fifo"
    /\ panic = "none"
    /\ Commit([remove(Kernel, TheList, item)
                EXCEPT !.ret = remove_ok(Kernel, item),
                       !.panic = IF remove_ok(Kernel, item)
                                        /\ length[TheList] = 0
                                 THEN "attempt to subtract with overflow"
                                 ELSE "none"])
    /\ fifo' = Without(fifo, item)
    /\ op' = "list_remove"
    /\ arg' = item
    /\ FifoFrame

\* list.get_head()
FifoGetHead ==
    /\ pc = "fifo"
    /\ panic = "none"
    /\ Commit([Kernel EXCEPT !.ret = get_head(Kernel, TheList)])
    /\ op' = "get_head"
    /\ arg' = NULL
    /\ UNCHANGED fifo
    /\ FifoFrame

\* list.is_empty()
FifoIsEmpty ==
    /\ pc = "fifo"
    /\ panic = "none"
    /\ Commit([Kernel EXCEPT !.ret = is_empty(Kernel, TheList)])
    /\ op' = "is_empty"
    /\ arg' = NULL
    /\ UNCHANGED fifo
    /\ FifoFrame

\* item.is_in_list()
FifoIsInList(item) ==
    /\ pc = "fifo"
    /\ panic = "none"
    /\ Commit([Kernel EXCEPT !.ret = is_in_list(Kernel, item)])
    /\ op' = "is_in_list"
    /\ arg' = item
    /\ UNCHANGED fifo
    /\ FifoFrame

FifoNext ==
    \/ \E item \in Tasks : FifoInsertEnd(item)
    \/ \E item \in Tasks : FifoRemove(item)
    \/ FifoGetHead
    \/ FifoIsEmpty
    \/ \E item \in Tasks : FifoIsInList(item)

SpecFifo == FifoInit /\ [][FifoNext]_vars

\* ------------------------------------------------------------------------
\* The tick counter: increment_tick called by the timer handler, and an
\* interval measured with get_tick_count().elapsed_since(start)
\* ------------------------------------------------------------------------
\* 2^(16k) - 1
AllOnes(k) == [i \in 1..LimbCount |-> IF i <= k THEN LIMB - 1 ELSE 0]

\* The ticks an interval starts at: the last NTickBack + 1 values before
\* each limb of the counter carries into the next, and before the counter
\* wraps (k = LimbCount: u64::MAX and below); 0 itself
TickStarts ==
    {u64_sub(AllOnes(k), U64(d), 1, 0) : k \in 0..LimbCount, d \in 0..NTickBack}

TickInit ==
    /\ InitLists
    /\ InitSched
    /\ InitCall
    /\ IdleStack
    /\ IdleNodes
    /\ IdleIrq
    /\ IdleNew
    /\ pc = "tick"
    /\ cpu = 0
    /\ ntasks = 0
    /\ l_current = NULL
    /\ l_next = NULL
    /\ prev_current = NULL
    /\ priority = [t \in Tasks |-> IDLE_PRIORITY]
    /\ owner = [t \in Tasks |-> NULL]
    /\ state = [t \in Tasks |-> "Ready"]
    /\ TaskValues
    /\ IdleFifo
    /\ tick_count \in TickStarts
    /\ tick_start = get_tick_count(tick_count)
    /\ tick_calls = 0

TickFrame ==
    UNCHANGED <<listVars, tcbVars, schedVars, panic, protoVars, stackVars,
                nodeVars, irqVars, newVars, tick_start, fifo>>

\* increment_tick()
TickIncrement ==
    /\ pc = "tick"
    /\ tick_calls < MaxTicks
    /\ tick_count' = increment_tick(tick_count)
    /\ tick_calls' = tick_calls + 1
    /\ op' = "increment_tick"
    /\ ret' = NULL
    /\ TickFrame

\* get_tick_count().elapsed_since(start)
TickElapsed ==
    /\ pc = "tick"
    /\ ret' = TickType_elapsed_since(get_tick_count(tick_count), tick_start)
    /\ op' = "elapsed_since"
    /\ UNCHANGED <<tick_count, tick_calls>>
    /\ TickFrame

TickNext == TickIncrement \/ TickElapsed

SpecTick == TickInit /\ [][TickNext]_vars

\* ------------------------------------------------------------------------
\* Observations used by the properties
\* ------------------------------------------------------------------------
\* Forward traversal of ready_lists[p] from the end marker: the nodes
\* visited before the end marker is met again (or a null link, or more
\* steps than there are nodes)
RECURSIVE Forward(_, _, _, _)
Forward(K, p, n, fuel) ==
    IF n = EndMarker(p) \/ n = NULL \/ fuel = 0 THEN <<>>
    ELSE <<n>> \o Forward(K, p, K.next[n], fuel - 1)

ListSeq(K, p) == Forward(K, p, K.next[EndMarker(p)], NTasks + 1)

Range(q) == {q[i] : i \in 1..Len(q)}

\* The ready lists whose traversal meets a node at all: the end marker's
\* next is neither the end marker itself nor null
Occupied(K) ==
    {p \in Priorities : K.next[EndMarker(p)] \notin {EndMarker(p), NULL}}

InList(K, t, p) == t \in Range(ListSeq(K, p))

\* The ready lists whose traversal meets t
ListsOf(K, t) == {p \in Occupied(K) : InList(K, t, p)}

\* The tasks met in some ready list
Linked(K) == UNION {Range(ListSeq(K, p)) \cap Tasks : p \in Occupied(K)}

\* Non-empty by its length or by its links
NonEmpty(K, p) ==
    ~is_empty(K, p) \/ K.next[EndMarker(p)] \notin {EndMarker(p), NULL}

SetMax(S) == CHOOSE x \in S : \A y \in S : y <= x

\* Index of the highest non-empty ready list, 0 when all are empty
HighestNonEmpty(K) ==
    LET S == {p \in Priorities : NonEmpty(K, p)}
    IN  IF S = {} THEN 0 ELSE SetMax(S)

TopAtLeast(K) ==
    \A p \in Priorities : NonEmpty(K, p) => K.top_ready_priority >= p

Running == {t \in Tasks : state[t] = "Running"}

Selects == {"select_highest", "select_next_different"}

\* ------------------------------------------------------------------------
\* Properties
\* ------------------------------------------------------------------------

\* C1: after any sequence of scheduler operations on finalized TCBs, at
\* most one TCB has state Running.
C1_AtMostOneRunning == Cardinality(Running) <= 1

\* C2 (as claimed): a TCB is linked in exactly one ready list if and only
\* if its state is Ready or Running, also right after new and after remove.
C2_LinkedIffReady ==
    \A t \in Tasks :
        (Cardinality(ListsOf(Kernel, t)) = 1)
            <=> (state[t] \in {"Ready", "Running"})

\* C2 (amended): a TCB that is linked in a ready list is linked in exactly
\* one ready list, its node says so (container set, prev and next set), and
\* its state is Ready or Running. The converse is not claimed.
C2_LinkedImpliesReady ==
    \A t \in Tasks :
        LET lists == ListsOf(Kernel, t) IN
        lists # {} =>
            /\ Cardinality(lists) = 1
            /\ is_in_list(Kernel, t)
            /\ state[t] \in {"Ready", "Running"}

\* C2 witness: a remove has just unlinked a TCB whose state is still Ready
\* or Running, while another TCB is linked.
C2_Witness ==
    /\ op = "remove"
    /\ ret = TRUE
    /\ \E t \in Tasks : ListsOf(Kernel, t) = {} /\ state[t] = "Running"
    /\ \E t \in Tasks : ListsOf(Kernel, t) # {}

\* C3: every task met by forward traversal of ready_lists[p] has state
\* Ready or Running and priority p.
C3_ReadyListMembers ==
    \A p \in Occupied(Kernel) :
        \A n \in Range(ListSeq(Kernel, p)) :
            /\ n \in Tasks
            /\ state[n] \in {"Ready", "Running"}
            /\ priority[n] = p

\* C3 witness: a ready list holds two tasks, one Running and one Ready.
C3_Witness ==
    \E p \in Priorities :
        \E t, u \in Range(ListSeq(Kernel, p)) :
            state[t] = "Running" /\ state[u] = "Ready"

\* C4: top_ready_priority is at least the index of every non-empty ready
\* list, in every state between operations and in the two intermediate
\* states of select_next_different_task (current removed; current removed
\* and the next task selected).
C4_TopAtLeast ==
    /\ TopAtLeast(Kernel)
    /\ (current_task # NULL /\ remove_ok(Kernel, current_task)) =>
            /\ \A K \in {sndt_after_remove(Kernel)} : TopAtLeast(K)
            /\ \A K \in {sndt_after_select(Kernel)} : TopAtLeast(K)

\* C4 witness: select_next_different_task returned a task of lower priority
\* than the caller, so the cache was lowered by the removal and raised
\* again by the re-add.
C4_Witness ==
    /\ op = "select_next_different"
    /\ panic = "none"
    /\ current_task # NULL
    /\ ret \in Tasks
    /\ priority[ret] < priority[current_task]
    /\ top_ready_priority = priority[current_task]
    /\ sndt_after_remove(Kernel).top_ready_priority < top_ready_priority

\* C5: after every completed add or remove (and yield, which is a remove
\* followed by an add) top_ready_priority is the index of the highest
\* non-empty ready list, 0 when all are empty.
C5_TopExact ==
    op \in {"add", "remove", "yield"} =>
        top_ready_priority = HighestNonEmpty(Kernel)

\* C5 witness: with tasks at priorities 3 and 5, the priority-5 task has
\* just been removed: list 5 is empty and the cache is 3.
C5_Witness ==
    /\ op = "remove"
    /\ ret = TRUE
    /\ is_empty(Kernel, 5)
    /\ \E t \in Tasks : priority[t] = 5 /\ ~is_in_list(Kernel, t)
    /\ \E t \in Tasks : priority[t] = 3 /\ InList(Kernel, t, 3)
    /\ top_ready_priority = 3

\* The registered tasks of the demo protocol at the highest occupied
\* priority, and their cyclic successor in registration order
Registered == 1..ntasks

TopSet ==
    IF Registered = {} THEN {}
    ELSE {t \in Registered : \A u \in Registered : priority[u] <= priority[t]}

SetMin(S) == CHOOSE x \in S : \A y \in S : x <= y

SuccTop(t) ==
    LET later == {u \in TopSet : u > t}
    IN  IF later # {} THEN SetMin(later) ELSE SetMin(TopSet)

\* C6: with N >= 2 tasks registered in order t1..tN at the highest occupied
\* priority (any of the 32), the yield sequence never aborts and makes the
\* tasks current in the cyclic order t1, t2, ..., tN, t1, ...
C6_RoundRobin ==
    Cardinality(TopSet) >= 2 =>
        /\ panic = "none"
        /\ current_task # NULL => current_task \in TopSet
        /\ (current_task # NULL /\ prev_current = NULL) =>
                current_task = SetMin(TopSet)
        /\ prev_current # NULL => current_task = SuccTop(prev_current)

\* C6, at every priority but 2: the same statement holds.
C6_RoundRobinExceptTwo ==
    (\A t \in TopSet : priority[t] # 2) => C6_RoundRobin

\* C7: select_highest_priority_task returns the head of the highest
\* non-empty ready list whenever a task is linked; no linked task has a
\* higher priority than the task returned.
C7_StrictPriority ==
    op = "select_highest" =>
        LET linked == Linked(Kernel) IN
        linked # {} =>
            /\ ret \in Tasks
            /\ ret = Head(ListSeq(Kernel, HighestNonEmpty(Kernel)))
            /\ \A u \in linked : priority[u] <= priority[ret]

\* C7 witness: a lower-priority task was registered first and is linked, and
\* the selection returned the higher-priority one.
C7_Witness ==
    /\ op = "select_highest"
    /\ ret \in Tasks
    /\ \E lo \in Linked(Kernel) : priority[lo] < priority[ret]
    /\ Cardinality(Linked(Kernel)) >= 3

\* C8 (as claimed): at every selection, select_next_different_task
\* included, no task linked when the call returns has a higher priority
\* than the task returned.
C8_HigherAlwaysWins ==
    (op \in Selects /\ panic = "none" /\ ret # NULL) =>
        LET linked == Linked(Kernel) IN
        \A u \in linked : priority[u] <= priority[ret]

\* C8 (amended): no linked task other than the caller of
\* select_next_different_task (current_task, which that call sets aside) has
\* a higher priority than the task returned; select_next_different_task
\* returns the caller only when no other task is linked.
C8_HigherWinsExceptCaller ==
    (op \in Selects /\ panic = "none" /\ ret # NULL) =>
        LET linked == Linked(Kernel) IN
        /\ \A u \in linked :
              ~(op = "select_next_different" /\ u = current_task) =>
                  priority[u] <= priority[ret]
        /\ (op = "select_next_different" /\ ret = current_task) =>
              linked = {current_task}

\* C8 witness: select_next_different_task, called by a task at the top
\* priority, returned a task of lower priority while a third, still lower,
\* task is linked.
C8_Witness ==
    /\ op = "select_next_different"
    /\ panic = "none"
    /\ current_task \in Linked(Kernel)
    /\ ret \in Tasks
    /\ priority[ret] < priority[current_task]
    /\ \E u \in Linked(Kernel) : priority[u] < priority[ret]

\* The configuration of main.rs: idle at 0, task1 at 2, task2 at 1,
\* registered in this order
IdleTcb == 1
Task1Tcb == 2
Task2Tcb == 3

DemoConfig ==
    /\ ntasks = 3
    /\ priority[IdleTcb] = 0
    /\ priority[Task1Tcb] = 2
    /\ priority[Task2Tcb] = 1

\* C9: in the configuration of main.rs the current task alternates task1,
\* task2, task1, ... forever; the idle task is never selected, never
\* Running and never current.
C9_DemoRotation ==
    /\ [](DemoConfig =>
            /\ panic = "none"
            /\ current_task # IdleTcb
            /\ state[IdleTcb] # "Running"
            /\ op \in Selects => ret # IdleTcb
            /\ (current_task # NULL /\ prev_current = NULL) =>
                    current_task = Task1Tcb
            /\ prev_current = Task1Tcb => current_task = Task2Tcb
            /\ prev_current = Task2Tcb => current_task = Task1Tcb)
    /\ []<>(DemoConfig => (cpu = Task1Tcb /\ pc = "task_body"))
    /\ []<>(DemoConfig => (cpu = Task2Tcb /\ pc = "task_body"))

\* C9 witness: task1 is current again after task2 was.
C9_Witness ==
    /\ DemoConfig
    /\ pc = "task_body"
    /\ cpu = Task1Tcb
    /\ current_task = Task1Tcb
    /\ prev_current = Task2Tcb

\* C10: the pointer initialize_task_stack returns is a multiple of 16.
C10_StackAligned ==
    stack_sp # NULL => stack_sp % STACK_ALIGNMENT = 0

\* C10, what the code does: the top of the frame is a multiple of 16 and the
\* pointer returned, 31 words below it, is 8 more than a multiple of 16.
C10_FrameTopAligned ==
    stack_sp # NULL =>
        /\ (stack_sp + CONTEXT_WORDS * WORD_BYTES) % STACK_ALIGNMENT = 0
        /\ stack_sp % STACK_ALIGNMENT = WORD_BYTES

\* The words of the stack buffer, by byte address
BufferWords == {stack_base + i * WORD_BYTES : i \in 0..(stack_len - 1)}

\* C11: for a buffer of at least MIN_STACK_SIZE words at a 16-byte or only
\* 8-byte aligned base, the 31 words from the pointer returned lie inside
\* the buffer, the first holds the entry address, the other 30 hold zero,
\* and no other word is written.
C11_FrameInsideBuffer ==
    stack_sp # NULL =>
        LET frame == {stack_sp + i * WORD_BYTES : i \in 0..(CONTEXT_WORDS - 1)}
        IN  /\ stack_len >= MIN_STACK_SIZE
            /\ frame \subseteq BufferWords
            /\ DOMAIN stack_mem = frame
            /\ stack_mem[stack_sp] = EntryAddr
            /\ \A a \in frame \ {stack_sp} : stack_mem[a] = 0

\* C11 witness: the stack was seeded in a buffer whose base is only 8-byte
\* aligned and whose top had to be aligned down.
C11_Witness ==
    /\ stack_sp # NULL
    /\ stack_base % STACK_ALIGNMENT = WORD_BYTES
    /\ (stack_base + stack_len * WORD_BYTES) % STACK_ALIGNMENT # 0
    /\ Cardinality(DOMAIN stack_mem) = CONTEXT_WORDS

\* The number of nodes a forward traversal of list p meets before it is
\* back at the end marker, -1 when it never gets back
RECURSIVE Returns(_, _, _, _)
Returns(K, p, n, fuel) ==
    IF n = EndMarker(p) THEN 0
    ELSE IF n = NULL \/ fuel = 0 THEN -1
    ELSE LET r == Returns(K, p, K.next[n], fuel - 1)
         IN  IF r < 0 THEN -1 ELSE r + 1

\* The structural invariant of list p
WellFormed(K, p) ==
    \/ /\ K.length[p] = 0
       /\ K.next[EndMarker(p)] = EndMarker(p)
       /\ K.prev[EndMarker(p)] = EndMarker(p)
    \/ /\ Returns(K, p, K.next[EndMarker(p)], NTasks + 1) = K.length[p]
       /\ \A n \in Range(ListSeq(K, p)) :
            n \in Tasks /\ K.container[n] = ListPtr(p)

\* C12: after every List operation that returns, applied in any order to
\* any node (linked already or not), the list is empty with its end marker
\* self-linked and length 0, or its forward traversal meets exactly
\* `length` nodes before it is back at the end marker and the container of
\* each is this list.
C12_ListWellFormed ==
    (pc = "list" /\ panic = "none") => WellFormed(Kernel, TheList)

\* C12, for callers that insert only unlinked nodes and initialise only a
\* list without nodes: the invariant holds.
C12_WellFormedUnlessMisused ==
    (pc = "list" /\ panic = "none" /\ misuse = 0) =>
        WellFormed(Kernel, TheList)

\* C13: remove on a node whose prev or next is null returns false and
\* changes neither the length nor any link of the end marker, of the node or
\* of another node; remove on a node linked in the list (met by the
\* traversal of a list that satisfies its invariant) returns true, takes
\* exactly 1 off the length and leaves the node's links null.
C13_RemoveIdempotent ==
    [][op' = "list_remove" =>
        LET item == arg' IN
        IF ~remove_ok(Kernel, item)
        THEN /\ ret' = FALSE
             /\ panic' = "none"
             /\ UNCHANGED listVars
        ELSE (/\ WellFormed(Kernel, TheList)
              /\ item \in Range(ListSeq(Kernel, TheList))) =>
                /\ ret' = TRUE
                /\ panic' = "none"
                /\ length'[TheList] = length[TheList] - 1
                /\ next'[item] = NULL
                /\ prev'[item] = NULL
                /\ container'[item] = NULL
                /\ ~remove_ok(Kernel', item)]_vars

\* C13 witness: a remove of a node that had been removed already returned
\* false while the other node is still linked.
C13_Witness ==
    /\ pc = "list"
    /\ op = "list_remove"
    /\ ret = FALSE
    /\ misuse = 0
    /\ next[arg] = NULL
    /\ prev[arg] = NULL
    /\ length[TheList] = 1
    /\ \E n \in ListNodes \ {arg} : InList(Kernel, n, TheList)

\* C14: a node inserted by insert_sorted into a list that holds nodes of
\* the same value comes after all of them in forward traversal order.
C14_StableInsert ==
    (op = "insert_sorted" /\ panic = "none" /\ misuse = 0) =>
        LET q == ListSeq(Kernel, TheList) IN
        \A i, j \in 1..Len(q) :
            (q[j] = arg /\ q[i] # arg /\ value[q[i]] = value[arg]) => i < j

\* C14, as the code has it: the node comes before all nodes of the same
\* value that the list held.
C14_InsertedBeforeEquals ==
    (op = "insert_sorted" /\ panic = "none" /\ misuse = 0) =>
        LET q == ListSeq(Kernel, TheList) IN
        \A i, j \in 1..Len(q) :
            (q[j] = arg /\ q[i] # arg /\ value[q[i]] = value[arg]) => j < i

\* add_task_to_scheduler(t) followed immediately by
\* remove_task_from_scheduler(t)
AddThenRemove(K, t) ==
    remove_task_from_scheduler(add_task_to_scheduler(K, t), t)

\* The TCB is finalized and its state_list_item is not linked
FinalizedUnlinked(K, t) ==
    /\ owner[t] = t
    /\ K.container[t] = NULL
    /\ K.next[t] = NULL
    /\ K.prev[t] = NULL

\* C15: in every scheduler state whose top_ready_priority is exact, for
\* every finalized unlinked TCB t, add_task_to_scheduler(t) followed
\* immediately by remove_task_from_scheduler(t) returns true, restores
\* task_count, top_ready_priority and every ready list (length, links and
\* so contents and order), and leaves container, prev and next of t null.
C15_AddRemoveRoundTrip ==
    (pc = "api" /\ panic = "none"
        /\ top_ready_priority = HighestNonEmpty(Kernel)) =>
        \A t \in Tasks :
            FinalizedUnlinked(Kernel, t) =>
                \A R \in {AddThenRemove(Kernel, t)} :
                    /\ R.ret = TRUE
                    /\ R.task_count = task_count
                    /\ R.top_ready_priority = top_ready_priority
                    /\ R.length = length
                    /\ R.next = next
                    /\ R.prev = prev
                    /\ R.container = container

\* C15 witness: a state with an exact cache, reached by a remove, in which
\* an unlinked TCB has a priority above every linked one: adding it raises
\* the cache and removing it again must bring the cache back down.
C15_Witness ==
    /\ pc = "api"
    /\ op = "remove"
    /\ ret = TRUE
    /\ top_ready_priority = HighestNonEmpty(Kernel)
    /\ Linked(Kernel) # {}
    /\ \E t \in Tasks :
        /\ FinalizedUnlinked(Kernel, t)
        /\ priority[t] > top_ready_priority
        /\ add_task_to_scheduler(Kernel, t).top_ready_priority = priority[t]
        /\ AddThenRemove(Kernel, t).top_ready_priority = top_ready_priority

\* C16: while only CriticalSection guards are created and dropped, in LIFO
\* order, since the outermost enter, interrupts are disabled as long as a
\* guard is alive, and once the outermost guard is dropped MIE is what it
\* was right before the outermost enter.
C16_GuardsNest ==
    (pc = "irq" /\ cs_clean) =>
        /\ guards # <<>> => ~mie
        /\ guards = <<>> => mie = mie0

\* C16 witness: interrupts were enabled, two guards were entered and the
\* inner one has just been dropped: interrupts are still disabled and the
\* outer guard holds the enabled state it will write back.
C16_Witness ==
    /\ pc = "irq"
    /\ cs_clean
    /\ op = "cs_drop"
    /\ Len(guards) = 1
    /\ guards[1] = TRUE
    /\ mie0 = TRUE
    /\ ~mie

\* C17 (as claimed): in a sequence of suspend() and resume() calls only,
\* interrupts are disabled whenever suspend_depth > 0; suspend adds 1 and
\* disables interrupts only when the depth was 0; every resume subtracts 1
\* and enables interrupts only when the depth was 1; is_suspended() is
\* suspend_depth > 0.
C17_SuspendResume ==
    (pc = "irq" /\ sr_only) =>
        /\ suspend_depth > 0 => ~mie
        /\ is_suspended(IrqState) <=> suspend_depth > 0
        /\ op = "suspend" =>
            /\ suspend_depth = old.suspend_depth + 1
            /\ ~mie
            /\ old.suspend_depth > 0 => mie = old.mie
        /\ op = "resume" =>
            /\ suspend_depth = old.suspend_depth - 1
            /\ old.suspend_depth = 1 => mie
            /\ old.suspend_depth # 1 => mie = old.mie

\* C17 (amended): the same, with resume subtracting 1 only when the depth
\* is above 0: a resume at depth 0 changes neither the depth nor MIE.
C17_SuspendResumePaired ==
    (pc = "irq" /\ sr_only) =>
        /\ suspend_depth > 0 => ~mie
        /\ is_suspended(IrqState) <=> suspend_depth > 0
        /\ op = "suspend" =>
            /\ suspend_depth = old.suspend_depth + 1
            /\ ~mie
            /\ old.suspend_depth > 0 => mie = old.mie
        /\ op = "resume" =>
            /\ old.suspend_depth > 0 =>
                    suspend_depth = old.suspend_depth - 1
            /\ old.suspend_depth = 0 => suspend_depth = 0
            /\ old.suspend_depth = 1 => mie
            /\ old.suspend_depth # 1 => mie = old.mie

\* C17 witness: two suspends and one resume: the depth is 1 and interrupts
\* are still disabled.
C17_Witness ==
    /\ pc = "irq"
    /\ sr_only
    /\ op = "resume"
    /\ old.suspend_depth = 2
    /\ suspend_depth = 1
    /\ ~mie

\* C18: select_next_different_task with a non-null current task fails an
\* assertion only when the current task is not linked in its ready list,
\* and then it is the assertion on the removal; with the current task
\* linked it returns, at any priority and with any number of other tasks
\* at that priority.
C18_AssertsOnlyUnlinked ==
    (op = "select_next_different" /\ current_task # NULL) =>
        /\ panic \in {"none",
                      "BUG: Failed to remove current task from ready list!"}
        /\ panic = "none" => remove_ok(Kernel, current_task)
        /\ panic # "none" => ~remove_ok(Kernel, current_task)

\* C18, for a current task of any priority but 2: the same statement holds.
C18_AssertsOnlyUnlinkedExceptTwo ==
    (current_task # NULL /\ priority[current_task] # 2) =>
        C18_AssertsOnlyUnlinked

\* The node as ListNode::new leaves it, with the sort value of priority p
FreshNode(n, p) ==
    /\ n.next = NULL
    /\ n.prev = NULL
    /\ n.container = NULL
    /\ n.owner = NULL
    /\ n.value = MAX_PRIORITIES - p

\* C19: TaskControlBlock::new panics if and only if priority >= 32 or
\* stack_size < 256; otherwise the TCB it returns has state Ready,
\* priority and base_priority equal to the argument and below 32, and both
\* list nodes unlinked, without owner, with sort value 32 - priority. Every
\* TCB that exists has a priority below MAX_PRIORITIES.
C19_NewValidates ==
    /\ \A i \in 1..Len(new_tcb) : new_tcb[i].priority < MAX_PRIORITIES
    /\ (pc = "tcb" /\ op = "new") =>
        /\ panic # "none" <=> (\/ new_priority >= MAX_PRIORITIES
                               \/ new_stack_size < MIN_STACK_SIZE)
        /\ panic # "none" => new_tcb = <<>>
        /\ panic = "none" =>
            /\ Len(new_tcb) = 1
            /\ new_tcb[1].state = "Ready"
            /\ new_tcb[1].priority = new_priority
            /\ new_tcb[1].base_priority = new_priority
            /\ new_tcb[1].priority < MAX_PRIORITIES
            /\ new_tcb[1].stack_size = new_stack_size
            /\ FreshNode(new_tcb[1].state_list_item, new_priority)
            /\ FreshNode(new_tcb[1].event_list_item, new_priority)

\* C19 witness: new returned a TCB of the highest priority with the
\* smallest stack.
C19_Witness ==
    /\ pc = "tcb"
    /\ op = "new"
    /\ panic = "none"
    /\ new_priority = MAX_PRIORITIES - 1
    /\ new_stack_size = MIN_STACK_SIZE
    /\ Len(new_tcb) = 1
    /\ new_tcb[1].state_list_item.value = 1

\* C20: the first update_list_item_owners on a TCB (directly or through
\* init_static) sets the owner of state_list_item and of event_list_item to
\* the TCB; every later call panics and leaves both owners as they were.
C20_OwnersOnce ==
    (pc = "tcb" /\ op \in {"update_list_item_owners", "init_static"}) =>
        /\ owner_calls = 1 =>
            /\ panic = "none"
            /\ new_tcb[1].state_list_item.owner = TcbAddr
            /\ new_tcb[1].event_list_item.owner = TcbAddr
            /\ old[1].state_list_item.owner = NULL
            /\ old[1].event_list_item.owner = NULL
        /\ owner_calls > 1 =>
            /\ panic = "TCB list items already initialized!"
            /\ new_tcb = old
            /\ new_tcb[1].state_list_item.owner = TcbAddr
            /\ new_tcb[1].event_list_item.owner = TcbAddr

\* C20 witness: a second call, through init_static, has panicked.
C20_Witness ==
    /\ pc = "tcb"
    /\ op = "init_static"
    /\ owner_calls = 2
    /\ panic # "none"
    /\ new_tcb[1].state_list_item.owner = TcbAddr

\* C21: select_highest_priority_task returns null exactly when every ready
\* list is empty, and a TCB whenever a finalized task is linked in some
\* ready list; main ends in its panic on a null first selection and calls
\* set_current_task and start_first_task only with the TCB selected.
C21_NullIffAllEmpty ==
    /\ \A K \in {select_highest_priority_task(Kernel)} :
        /\ (K.ret = NULL) <=> (\A p \in Priorities : is_empty(Kernel, p))
        /\ (\E t \in Linked(Kernel) : owner[t] # NULL) => K.ret \in Tasks
    /\ (op = "select_highest" /\ ret = NULL) =>
            /\ pc = "main_fail"
            /\ panic = "Scheduler failed to start!"
            /\ cpu = 0
    /\ pc = "main_start" => l_next \in Tasks
    /\ pc = "main_fail" => current_task = NULL
    /\ cpu # 0 => cpu \in Tasks /\ ntasks > 0

\* C21 witness: main registered no task, its first selection returned null
\* and main ended in "Scheduler failed to start!" without starting a task.
C21_Witness ==
    /\ pc = "main_fail"
    /\ op = "select_highest"
    /\ ret = NULL
    /\ ntasks = 0
    /\ \A p \in Priorities : is_empty(Kernel, p)
    /\ panic = "Scheduler failed to start!"

\* C21 also reaches the other side: a first selection that returned a TCB
\* with which main goes on to start the task.
C21_WitnessStarted ==
    /\ pc = "main_start"
    /\ op = "select_highest"
    /\ ret \in Tasks
    /\ ret \in Linked(Kernel)

\* The operations that write a ready list, a node's links, a task's state
\* or current_task
Mutators ==
    {"add", "remove", "yield", "select_highest", "select_next_different",
     "set_current", "switch_context"}

\* C22: every step that mutates a ready list, a node's links, a task's
\* state or current_task runs with machine interrupts disabled, inside a
\* CriticalSection guard or between suspend_scheduler and resume_scheduler.
C22_MutationsInCriticalSection ==
    op \in Mutators =>
        /\ mie = FALSE
        /\ (Len(guards) > 0 \/ suspend_depth > 0)

\* C22, what the code does instead: the scheduler entry points and the
\* yield blocks of main.rs never take a guard and never suspend the
\* scheduler; they run with whatever MIE the boot code left.
C22_NoInterruptControl ==
    /\ guards = <<>>
    /\ suspend_depth = 0
    /\ mie = mie0

\* A well-formed u64: every limb within its 16 bits
IsU64(x) == Len(x) = LimbCount /\ \A i \in 1..LimbCount : x[i] \in 0..(LIMB - 1)

\* C23: increment_tick adds 1 modulo 2^64 and never panics (from u64::MAX
\* the tick becomes 0), and after n calls get_tick_count().elapsed_since(t)
\* is n for the tick t the interval started at, also across the wrap.
C23_TickWraps ==
    pc = "tick" =>
        /\ panic = "none"
        /\ IsU64(tick_count)
        /\ TickType_elapsed_since(get_tick_count(tick_count), tick_start)
                = U64(tick_calls)
        /\ op = "elapsed_since" => ret = U64(tick_calls)
        /\ (tick_start = TickType_max /\ tick_calls >= 1) =>
                tick_count = U64(tick_calls - 1)
        /\ tick_start[1] + tick_calls < LIMB =>
                tick_count = [tick_start EXCEPT ![1] = @ + tick_calls]

\* C23 witness: an interval that started below u64::MAX was measured after
\* the counter had wrapped past 0.
C23_Witness ==
    /\ pc = "tick"
    /\ op = "elapsed_since"
    /\ tick_start # TickType_max
    /\ tick_start[LimbCount] = LIMB - 1
    /\ tick_count[LimbCount] = 0
    /\ tick_count # TickType_zero
    /\ ret = U64(tick_calls)
    /\ tick_calls > 1

\* Whether `target` is met from n by following `link` (next or prev)
RECURSIVE ReachesBy(_, _, _, _)
ReachesBy(link, n, target, fuel) ==
    IF n = target THEN TRUE
    ELSE IF n = NULL \/ fuel = 0 THEN FALSE
    ELSE ReachesBy(link, link[n], target, fuel - 1)

C25_NextDifferent ==
    panic = "none" =>
    \A R \in {select_next_different_task(Kernel)} :
        IF current_task = NULL
        THEN R = select_highest_priority_task(Kernel)
        ELSE R.panic = "none" =>
            LET c == current_task
                others == Linked(R) \ {c}
            IN  /\ R.current_task = c
                /\ R.prev[EndMarker(priority[c])] = c
                /\ R.next[c] = EndMarker(priority[c])
                /\ R.container[c] = ListPtr(priority[c])
                /\ others # {} =>
                    /\ R.ret \in others
                    /\ R.state[R.ret] = "Running"
                    /\ R.state[c] = "Ready"
                /\ others = {} =>
                    /\ R.ret = c
                    /\ R.state[c] = "Running"

\* C25 witness: the call has returned a task different from the current
\* one, which was the head of a list of three and is now its last node.
C25_Witness ==
    /\ op = "select_next_different"
    /\ panic = "none"
    /\ current_task \in Tasks
    /\ ret \in Tasks \ {current_task}
    /\ state[ret] = "Running"
    /\ state[current_task] = "Ready"
    /\ priority[ret] = priority[current_task]
    /\ length[priority[current_task]] = 3
    /\ prev[EndMarker(priority[current_task])] = current_task
    /\ next[EndMarker(priority[current_task])] = ret

\* C26: yield_task with a linked current task moves it to the tail of
\* ready_lists[current.priority], keeps the order of the other nodes, sets
\* its state to Ready and leaves current_task, top_ready_priority,
\* task_count, every other ready list and every other task's state as they
\* were; with a null current task it changes nothing. Stated of the call
\* applied to every state the tasks of main.rs reach.
C26_YieldRotates ==
    panic = "none" =>
    \A Y \in {yield_task(Kernel)} :
        IF current_task = NULL
        THEN Y = Kernel
        ELSE remove_ok(Kernel, current_task) =>
            LET c == current_task
                pc_ == priority[c]
            IN  /\ ListSeq(Y, pc_) = Without(ListSeq(Kernel, pc_), c) \o <<c>>
                /\ Y.length[pc_] = length[pc_]
                /\ Y.container[c] = ListPtr(pc_)
                /\ Y.state[c] = "Ready"
                /\ \A t \in Tasks \ {c} : Y.state[t] = state[t]
                /\ Y.current_task = c
                /\ Y.top_ready_priority = top_ready_priority
                /\ Y.task_count = task_count
                /\ Y.panic = "none"
                /\ \A p \in Priorities \ {pc_} :
                    /\ Y.next[EndMarker(p)] = next[EndMarker(p)]
                    /\ Y.prev[EndMarker(p)] = prev[EndMarker(p)]
                    /\ Y.length[p] = length[p]
                /\ \A p \in Occupied(Kernel) \ {pc_} :
                    ListSeq(Y, p) = ListSeq(Kernel, p)
                /\ \A t \in Tasks \ {c} :
                    /\ Y.container[t] = container[t]
                    /\ container[t] # ListPtr(pc_) =>
                        /\ Y.next[t] = next[t]
                        /\ Y.prev[t] = prev[t]

\* C26 witness: a yield has just moved the running head of a list of three
\* behind the two others, whose order is as it was.
C26_Witness ==
    /\ op = "yield"
    /\ current_task \in Tasks
    /\ length[priority[current_task]] = 3
    /\ state[current_task] = "Ready"
    /\ prev[EndMarker(priority[current_task])] = current_task
    /\ top_ready_priority = priority[current_task]
    /\ \E a, b \in Tasks \ {current_task} :
        /\ a < b
        /\ ListSeq(Kernel, priority[current_task]) = <<a, b, current_task>>

\* C27: select_highest_priority_task changes no list linkage: the links,
\* membership and length of every ready list, top_ready_priority,
\* current_task and task_count are as before; only the state of the
\* previous current task (Ready) and of the selected task (Running) may
\* change, and a second call returns the same task. Stated of the call
\* applied to every state the API reaches.
C27_SelectKeepsLists ==
    panic = "none" =>
    \A S \in {select_highest_priority_task(Kernel)} :
        /\ S.next = next
        /\ S.prev = prev
        /\ S.container = container
        /\ S.length = length
        /\ S.index = index
        /\ \A p \in Occupied(Kernel) : ListSeq(S, p) = ListSeq(Kernel, p)
        /\ S.top_ready_priority = top_ready_priority
        /\ S.current_task = current_task
        /\ S.task_count = task_count
        /\ S.panic = "none"
        /\ \A t \in Tasks :
            S.state[t] # state[t] => t \in {current_task, S.ret}
        /\ S.ret # NULL => S.state[S.ret] = "Running"
        /\ (current_task # NULL /\ current_task # S.ret) =>
                S.state[current_task] = "Ready"
        /\ \A S2 \in {select_highest_priority_task(S)} :
            /\ S2.ret = S.ret
            /\ S2 = S

\* C27 witness: a selection has returned the head of a list of two while
\* the current task is the other one, behind it and now Ready.
C27_Witness ==
    /\ op = "select_highest"
    /\ ret \in Tasks
    /\ current_task \in Tasks \ {ret}
    /\ state[ret] = "Running"
    /\ state[current_task] = "Ready"
    /\ ListSeq(Kernel, priority[ret]) = <<ret, current_task>>

\* C28: switch_context(from, to) makes `to` the current task before `to`
\* runs, so whenever a task executes (after a switch, or after main's
\* set_current_task and start_first_task) get_current_task() is its own
\* TCB; and no operation other than set_current_task, switch_context and
\* init changes current_task.
C28_RunningTaskIsCurrent ==
    /\ cpu # 0 => get_current_task(Kernel) = cpu
    /\ \A t \in Tasks \cup {NULL} :
        /\ get_current_task(switch_context(Kernel, current_task, t)) = t
        /\ get_current_task(set_current_task(Kernel, t)) = t
    /\ \A t \in Tasks :
        /\ get_current_task(add_task_to_scheduler(Kernel, t)) = current_task
        /\ get_current_task(remove_task_from_scheduler(Kernel, t))
                = current_task
    /\ get_current_task(yield_task(Kernel)) = current_task
    /\ get_current_task(select_highest_priority_task(Kernel)) = current_task
    /\ get_current_task(select_next_different_task(Kernel)) = current_task

\* C28 witness: a task that was switched to executes its yield block, the
\* current task being itself and no longer the task that switched to it.
C28_Witness ==
    /\ cpu \in Tasks
    /\ pc = "task_yield"
    /\ get_current_task(Kernel) = cpu
    /\ prev_current \in Tasks \ {cpu}
    /\ l_current = cpu

\* The values met by the forward traversal never decrease
NonDecreasing(K, p) ==
    LET q == ListSeq(K, p)
    IN  \A i \in 1..(Len(q) - 1) : get_value(q[i]) <= get_value(q[i + 1])

\* C29: on an initialised list built only with insert_sorted and remove,
\* every insert_sorted call terminates, for node values from 0 to u64::MAX,
\* and afterwards the values met by the forward traversal never decrease.
C29_SortedInsertTerminates ==
    op = "insert_sorted" =>
        /\ panic = "none"
        /\ arg \in Range(ListSeq(Kernel, TheList))
        /\ NonDecreasing(Kernel, TheList)

\* C29 for callers that insert only nodes that are not linked: every call
\* returns, the node is in the list and the values never decrease.
C29_TerminatesUnlessRelinked ==
    (misuse = 0 /\ op = "insert_sorted") =>
            /\ panic = "none"
            /\ arg \in Range(ListSeq(Kernel, TheList))
            /\ NonDecreasing(Kernel, TheList)
            /\ WellFormed(Kernel, TheList)

\* The case of u64::MAX: a node of that value was inserted into a list that
\* holds another node of that value, and the call returned.
C29_MaxValueInserted ==
    /\ misuse = 0
    /\ op = "insert_sorted"
    /\ panic = "none"
    /\ get_value(arg) = U64_MAX
    /\ Len(ListSeq(Kernel, TheList)) = 2
    /\ \A n \in Range(ListSeq(Kernel, TheList)) : get_value(n) = U64_MAX

\* C30: a list mutated only by insert_end of unlinked nodes and by remove
\* is a FIFO queue: its traversal is the sequence of the nodes inserted and
\* not removed, oldest first (so a removal from the middle keeps the order
\* of the others); get_head returns None exactly when no node is linked,
\* and otherwise the oldest node still linked; length is 0 exactly when
\* the end marker's next is the end marker.
C30_FifoQueue ==
    pc = "fifo" =>
        /\ panic = "none"
        /\ ListSeq(Kernel, TheList) = fifo
        /\ length[TheList] = Len(fifo)
        /\ (length[TheList] = 0)
                <=> (next[EndMarker(TheList)] = EndMarker(TheList))
        /\ (get_head(Kernel, TheList) = NULL)
                <=> (\A n \in Tasks : ~is_in_list(Kernel, n))
        /\ fifo # <<>> => get_head(Kernel, TheList) = Head(fifo)
        /\ \A n \in Tasks : is_in_list(Kernel, n) <=> n \in Range(fifo)
        /\ op = "get_head" =>
                ret = (IF fifo = <<>> THEN NULL ELSE Head(fifo))
        /\ op = "is_empty" => ret = (fifo = <<>>)
        /\ (op = "list_remove" /\ ret = TRUE) => arg \notin Range(fifo)

\* C30 witness: of three nodes inserted as 1, 2, 3 the middle one has just
\* been removed; the queue is 1, 3 and the head is node 1.
C30_Witness ==
    /\ pc = "fifo"
    /\ op = "list_remove"
    /\ arg = 2
    /\ ret = TRUE
    /\ fifo = <<1, 3>>
    /\ ListSeq(Kernel, TheList) = <<1, 3>>
    /\ get_head(Kernel, TheList) = 1

\* C31: remove_task_from_scheduler on a TCB that is not linked returns
\* false and changes nothing: task_count, top_ready_priority, every ready
\* list and its length, current_task and every task's state are as before.
\* Stated of the call applied to every state the API reaches.
C31_RemoveUnlinkedNoEffect ==
    panic = "none" =>
    \A t \in Tasks :
        ~is_in_list(Kernel, t) =>
            \A R \in {remove_task_from_scheduler(Kernel, t)} :
                /\ R.ret = FALSE
                /\ R.task_count = task_count
                /\ R.top_ready_priority = top_ready_priority
                /\ R.current_task = current_task
                /\ R.state = state
                /\ R.next = next
                /\ R.prev = prev
                /\ R.container = container
                /\ R.length = length
                /\ R.index = index
                /\ R.panic = "none"

\* C31 witness: a remove of a TCB that is not linked has returned false
\* while two TCBs are registered and linked.
C31_Witness ==
    /\ op = "remove"
    /\ ret = FALSE
    /\ task_count = 2
    /\ Cardinality({t \in Tasks : is_in_list(Kernel, t)}) = 2
    /\ current_task \in Tasks

\* Sum of the lengths of the ready lists
RECURSIVE SumLengths(_, _)
SumLengths(K, p) ==
    IF p < 0 THEN 0 ELSE K.length[p] + SumLengths(K, p - 1)

LinkedCount(K) == Cardinality({t \in Tasks : is_in_list(K, t)})

C32_LengthsAreLinked ==
    SumLengths(Kernel, MAX_PRIORITIES - 1) = LinkedCount(Kernel)

\* C33: in the demo protocol, whenever a task executes its own code outside
\* the scheduler calls of its yield block (before it calls
\* select_next_different_task), current_task is non-null, linked in its
\* ready list, in state Running, and the only TCB in state Running.
C33_RunningTaskInvariant ==
    (pc = "task_body" /\ panic = "none") =>
        /\ current_task \in Tasks
        /\ current_task = cpu
        /\ is_in_list(Kernel, current_task)
        /\ InList(Kernel, current_task, priority[current_task])
        /\ state[current_task] = "Running"
        /\ Running = {current_task}

\* C33 witness: a task that was switched to executes, Running and linked,
\* while the task that yielded to it and a third one are linked and Ready.
C33_Witness ==
    /\ pc = "task_body"
    /\ op = "switch_context"
    /\ panic = "none"
    /\ current_task \in Tasks
    /\ prev_current \in Tasks \ {current_task}
    /\ state[current_task] = "Running"
    /\ state[prev_current] = "Ready"
    /\ \A t \in Tasks : is_in_list(Kernel, t)

\* ------------------------------------------------------------------------
\* C34 (as claimed): while guards and suspend / resume pairs are properly
\* nested (every drop and every resume closes the innermost open guard or
\* suspend), interrupts are disabled as long as a CriticalSection guard is
\* alive, and as long as suspend_depth > 0.
C34_DisabledWhileNested ==
    (pc = "irq" /\ nest_ok) =>
        /\ guards # <<>> => ~mie
        /\ suspend_depth > 0 => ~mie

\* The second half of C34 alone: under the same nesting, interrupts are
\* disabled as long as suspend_depth > 0, guards entered and dropped inside
\* the suspend window included.
C34_DisabledWhileSuspended ==
    (pc = "irq" /\ nest_ok /\ suspend_depth > 0) => ~mie

\* A guard entered and dropped inside a suspend window: the window is still
\* open and interrupts are still disabled.
C34_GuardInsideSuspend ==
    /\ pc = "irq"
    /\ nest_ok
    /\ op = "cs_drop"
    /\ nest = <<"sr">>
    /\ suspend_depth = 1
    /\ guards = <<>>
    /\ ~mie

\* ------------------------------------------------------------------------
\* C35 (as claimed): when only suspend() and resume() were called, every
\* resume matching a suspend, and the depth is back at 0, MIE is what it
\* was before the first suspend, whether interrupts were enabled or
\* disabled then; a resume() at depth 0 changes neither suspend_depth nor
\* MIE.
C35_BalancedRestoresMie ==
    /\ (pc = "irq" /\ sr_only /\ nest_ok /\ suspend_depth = 0) => mie = mie0
    /\ (pc = "irq" /\ op = "resume" /\ old.suspend_depth = 0) =>
            IrqState = old

\* The parts of C35 that hold: a balanced sequence that started with
\* interrupts enabled ends with interrupts enabled, and a resume() at depth
\* 0 changes neither suspend_depth nor MIE.
C35_BalancedFromEnabled ==
    /\ (pc = "irq" /\ sr_only /\ nest_ok /\ suspend_depth = 0 /\ mie0) => mie
    /\ (pc = "irq" /\ op = "resume" /\ old.suspend_depth = 0) =>
            IrqState = old

\* Two nested suspend / resume pairs that started with interrupts enabled
\* have just been closed.
C35_BalancedClosed ==
    /\ pc = "irq"
    /\ sr_only
    /\ nest_ok
    /\ mie0
    /\ op = "resume"
    /\ old.suspend_depth = 1
    /\ suspend_depth = 0
    /\ mie

\* ------------------------------------------------------------------------
\* C36 (as claimed): in the demo protocol with at least two registered
\* tasks, every task at the highest occupied priority is current, executing
\* its body, infinitely often.
C36_TopTasksRecur ==
    \A t \in Tasks :
        []<>((ntasks >= 2 /\ t \in TopSet) =>
                (current_task = t /\ cpu = t /\ pc = "task_body"))

\* What C36 needs of every finite run: a kernel that has halted makes no
\* task current again, so with at least two registered tasks the protocol
\* never halts.
C36_TopTasksNeverHalted ==
    ntasks >= 2 => (pc # "halt" /\ panic = "none")

\* Registered tasks at priority 2, the level select_next_different_task
\* asserts on
AtTwo == {t \in Registered : priority[t] = 2}

\* The part of C36 that holds: when at most one registered task has
\* priority 2, every task at the highest occupied priority is current,
\* executing its body, infinitely often.
C36_TopTasksRecurExceptTwo ==
    \A t \in Tasks :
        []<>((ntasks >= 2 /\ t \in TopSet /\ Cardinality(AtTwo) <= 1) =>
                (current_task = t /\ cpu = t /\ pc = "task_body"))

\* Three tasks at priority 5 and the third of them is current again after
\* the second one was.
C36_ThirdOfThreeRuns ==
    /\ ntasks = 3
    /\ \A t \in Registered : priority[t] = 5
    /\ pc = "task_body"
    /\ op = "switch_context"
    /\ prev_current = 2
    /\ current_task = 3
    /\ panic = "none"

\* ------------------------------------------------------------------------
\* The TCBs whose state_list_item is linked in a list
LinkedTcbs(K) == {t \in Tasks : is_in_list(K, t)}

\* C37 (as claimed): yield_task and select_next_different_task, called in
\* any state the scheduler API reaches, leave the set of linked TCBs and
\* top_ready_priority as they were; yield_task with a current task that
\* remove_task_from_ready_list has unlinked leaves it unlinked and every
\* list length as it was.
C37_OnlyAddLinks ==
    panic = "none" =>
        /\ \A Y \in {yield_task(Kernel)} :
            /\ LinkedTcbs(Y) = LinkedTcbs(Kernel)
            /\ Y.top_ready_priority = top_ready_priority
            /\ (current_task # NULL /\ ~is_in_list(Kernel, current_task)) =>
                    /\ ~is_in_list(Y, current_task)
                    /\ Y.length = length
        /\ \A S \in {select_next_different_task(Kernel)} :
            S.panic = "none" =>
                /\ LinkedTcbs(S) = LinkedTcbs(Kernel)
                /\ S.top_ready_priority = top_ready_priority

\* The part of C37 that holds: select_next_different_task, and yield_task
\* with a linked current task or none, leave the set of linked TCBs and
\* top_ready_priority as they were.
C37_LinkedCallerKeepsLinks ==
    panic = "none" =>
        /\ \A Y \in {yield_task(Kernel)} :
            (current_task = NULL \/ is_in_list(Kernel, current_task)) =>
                /\ LinkedTcbs(Y) = LinkedTcbs(Kernel)
                /\ Y.top_ready_priority = top_ready_priority
        /\ \A S \in {select_next_different_task(Kernel)} :
            S.panic = "none" =>
                /\ LinkedTcbs(S) = LinkedTcbs(Kernel)
                /\ S.top_ready_priority = top_ready_priority

\* yield_current_task was called by a linked current task with another task
\* linked at its priority: the same TCBs are linked as before.
C37_YieldByLinkedTask ==
    /\ op = "yield"
    /\ panic = "none"
    /\ current_task \in Tasks
    /\ is_in_list(Kernel, current_task)
    /\ \E t \in Tasks \ {current_task} :
            /\ is_in_list(Kernel, t)
            /\ priority[t] = priority[current_task]

====
